---- MODULE Spec2Model ----
(***************************************************************************)
(* DropTester: the dual-camera recorder (DropTesterPro/src/camera.py).     *)
(* CameraWorker threads publish frames into bounded drop-oldest queues;    *)
(* DualCameraRecorder owns two camera handles and two workers, and each    *)
(* start() spawns a thread running _loop, which consumes the queues, paces *)
(* the writes and closes the output container.  The analysis module        *)
(* (DropTesterPro/src/analysis.py) is modelled by its two entry points:    *)
(* pick_impact_frames on a clip (SpecP) and analyze_bottle on a pair of    *)
(* frames with the threshold files of utils.py (SpecA).  The manual        *)
(* override of DropTesterPro/src/app.py is SpecF, the two threshold files  *)
(* written and read step by step are SpecC, the DualCameraMerger of        *)
(* dual_camera_merger.py is SpecM, and one CameraWorker with a consumer of *)
(* its queue is SpecQC.  SpecV is a session with the window reading the    *)
(* preview, SpecR an analysis, its override and the analysis run again,    *)
(* SpecT an analysis thread loading the thresholds during an override.     *)
(*                                                                         *)
(* Time.  The session clock of a loop (time.time() - start_time, line 312  *)
(* and 367) is counted in steps of TickSeconds by Tick.  The interval between two *)
(* write steps (dt, line 409) is drawn from 0..MaxDt in units of           *)
(* 1/PaceDenom second; write_accum is kept as a numerator over PaceDenom.  *)
(***************************************************************************)
EXTENDS Integers, Sequences, FiniteSets, TLC

\* ---------------------------------------------------------------- bounds
MaxCalls == 3       \* initialize() and start() calls in a behaviour
TickSeconds == 16   \* seconds of session clock that pass in one Tick
MaxFrames == 1      \* frames a worker captures inside the recorder
MaxBuf == 1         \* composite frames a loop keeps in its frames list
MaxWritten == 3     \* frames a streaming loop writes
MaxDt == 2          \* longest interval between two write steps
PaceDenom == 10     \* write-step clock ticks per second
MaxCams == 3        \* cameras detect_cameras may report
MaxCap == 4         \* largest queue_maxsize of a standalone worker
MaxPush == 7        \* frames a standalone worker captures
MaxFeed == 2        \* frames a worker captures in the two-camera session
MaxShown == 4        \* composite frames a session with the preview read buffers
MaxFlush == 2       \* composite frames the two-camera session keeps
MaxTotal == 5       \* frames of a clip given to pick_impact_frames
MaxStride == 3      \* largest coarse_stride
MaxWindow == 2      \* largest refine_window
MaxIgnore == 2      \* largest ignore_edge
MaxOffset == 2      \* largest offset_frames
MaxFragments == 4   \* small contours in a frame given to analyze_bottle
MaxBottles == 2     \* bottles of a test (constants.BOTTLE_COUNT is 6)
MaxOps == 5         \* calls and key presses a DualCameraMerger receives
MaxClip == 1        \* frames the merger's loop writes to one writer

\* ------------------------------------------------------ program constants
MAX_RECORD_SECONDS == 15
QueueMaxsize == 8
TargetFps == 30
MinWriterFps == 5
MaxWriterFps == 60
HiResHeight == 720
HiResPreviewThrottle == 3

Resolutions == {<<640, 480>>, <<1280, 720>>}
CamFps == {0, 4}          \* values cap.get(CAP_PROP_FPS) may report
Codecs == {"MJPG", "XVID"}
NoFrame == <<>>
DemoFrame == <<0, 0>>

VARIABLES
    env,            \* "cv2": cv2 and numpy import; "numpy": numpy only; "none"
    width, height,  \* DualCameraRecorder.width / .height
    cap1, cap2,     \* camera handles held by the recorder (0 = None)
    open,           \* handles opened by cv2.VideoCapture and not yet released
    nh,             \* handles ever returned by cv2.VideoCapture
    demo_mode, recording, stop_requested,
    frame_preview,  \* NoFrame = None
    cw1, cw2,       \* camera_worker1 / camera_worker2 (0 = None)
    last1, last2,   \* _last_frame1 / _last_frame2 (0 = None)
    workers,        \* every CameraWorker object ever constructed
    loops,          \* every _loop thread ever spawned; _t is the last one
    inits, starts,  \* calls of initialize() / start() so far
    initOutcome,    \* which return statement the latest initialize() took
    ready,          \* the latest return value of initialize()
    pick,           \* a call of analysis.pick_impact_frames
    job,            \* a call of analysis.analyze_bottle
    files,          \* analysis_config.json and analysis_config.json.bak
    io,             \* calls of utils.load_analysis_config / save_analysis_config
    app,            \* BottleTestApp.bottle_analysis_results
    merger          \* a DualCameraMerger

vars == <<env, width, height, cap1, cap2, open, nh, demo_mode, recording,
          stop_requested, frame_preview, cw1, cw2, last1, last2, workers,
          loops, inits, starts, initOutcome, ready,
                   pick, job, files, io, app, merger>>

recVars == <<width, height, cap1, cap2, open, nh, demo_mode, recording,
             stop_requested, frame_preview, cw1, cw2, last1, last2>>

\* the recorder's variables
camVars == <<env, width, height, cap1, cap2, open, nh, demo_mode, recording,
             stop_requested, frame_preview, cw1, cw2, last1, last2, workers,
             loops, inits, starts, initOutcome, ready>>
\* no call of the analysis module is in progress
NoCall == [pc |-> "none"]

\* neither the threshold files, the application window nor a merger are in use
AuxIdle == files = NoCall /\ io = NoCall /\ app = NoCall /\ merger = NoCall

\* ------------------------------------------------------------- helpers
Min(a, b) == IF a < b THEN a ELSE b
Max(a, b) == IF a > b THEN a ELSE b

\* Python int(): truncation toward zero of num/den
Trunc(num, den) == IF num >= 0 THEN num \div den ELSE -((-num) \div den)

SetMin(S) == CHOOSE x \in S : \A y \in S : x <= y

\* CameraWorker._last_error: None, the message of line 103, the prefix of the
\* message of line 140
NoError == "None"
Disconnected == "Camera disconnected or not opened"
CaptureError == "Frame capture error: "

NewWorker(h, maxsize) ==
    [cam |-> h, maxsize |-> maxsize, st |-> "new", stopEv |-> FALSE,
     errEv |-> FALSE, last_error |-> NoError, q |-> <<>>, n |-> 0,
     pc |-> "top", cur |-> 0]

NewLoop ==
    [pc |-> "begin", mode |-> "none", el |-> 0, combo_width |-> 0,
     combo_height |-> 0, fps |-> 0, out |-> "none",
     codec |-> "none", accum |-> 0, total |-> 0, paced |-> 0,
     stepped |-> FALSE, frames |-> <<>>, throttle |-> 1, fc |-> 0,
     saved |-> "no", why |-> "none", opens |-> {}, file |-> <<>>]

\* CameraWorker.stop on the recorder's workers a and b (0 = None)
StopWorkers(ws, a, b) ==
    [i \in DOMAIN ws |->
        IF i \in {a, b} THEN [ws[i] EXCEPT !.stopEv = TRUE] ELSE ws[i]]

Init ==
    /\ env \in {"cv2", "numpy", "none"}
    /\ width = 0 /\ height = 0
    /\ cap1 = 0 /\ cap2 = 0
    /\ open = {} /\ nh = 0
    /\ demo_mode = FALSE /\ recording = FALSE /\ stop_requested = FALSE
    /\ frame_preview = NoFrame
    /\ cw1 = 0 /\ cw2 = 0
    /\ last1 = 0 /\ last2 = 0
    /\ workers = <<>>
    /\ loops = <<>>
    /\ inits = 0 /\ starts = 0
    /\ initOutcome = "none"
    /\ ready = FALSE
    /\ pick = NoCall /\ job = NoCall
    /\ AuxIdle

\* ------------------------------------------------- DualCameraRecorder API

\* stop(): lines 491-500
Stop ==
    /\ stop_requested' = TRUE
    /\ recording' = FALSE
    /\ workers' = StopWorkers(workers, cw1, cw2)
    /\ UNCHANGED <<env, width, height, cap1, cap2, open, nh, demo_mode,
                   frame_preview, cw1, cw2, last1, last2, loops, inits,
                   starts, initOutcome, ready,
                   pick, job, files, io, app, merger>>

\* release(): lines 502-535.  join(timeout=2.0) returns whether or not the
\* worker has ended, so release does not wait in the model.
Release ==
    /\ stop_requested' = TRUE
    /\ recording' = FALSE
    /\ workers' = StopWorkers(workers, cw1, cw2)
    /\ cw1' = 0 /\ cw2' = 0
    /\ open' = open \ {cap1, cap2}
    /\ cap1' = 0 /\ cap2' = 0
    /\ frame_preview' = NoFrame
    /\ last1' = 0 /\ last2' = 0
    /\ UNCHANGED <<env, width, height, nh, demo_mode, loops, inits, starts,
                   initOutcome, ready,
                   pick, job, files, io, app, merger>>

\* initialize(width, height): lines 198-273.  n is the number of cameras
\* detect_cameras reports, o1/o2 whether open_with_pref opens the device.
InitializeWith(res, n, o1, o2) ==
    LET h1 == IF o1 THEN nh + 1 ELSE 0
        h2 == IF o2 THEN (IF o1 THEN nh + 2 ELSE nh + 1) ELSE 0
        k  == Len(workers)
    IN
    /\ width' = res[1] /\ height' = res[2]
    /\ inits' = inits + 1
    /\ ready' = TRUE
    /\ IF env # "cv2" \/ n < 2
       THEN /\ demo_mode' = TRUE
            /\ initOutcome' = "demo"
            /\ UNCHANGED <<cap1, cap2, open, nh, recording, stop_requested,
                           frame_preview, cw1, cw2, last1, last2, workers>>
       ELSE IF ~o1 \/ ~o2
       THEN \* lines 233-239: both handles assigned, then release()
            /\ nh' = nh + (IF o1 THEN 1 ELSE 0) + (IF o2 THEN 1 ELSE 0)
            /\ open' = open
            /\ cap1' = 0 /\ cap2' = 0
            /\ stop_requested' = TRUE
            /\ recording' = FALSE
            /\ workers' = StopWorkers(workers, cw1, cw2)
            /\ cw1' = 0 /\ cw2' = 0
            /\ frame_preview' = NoFrame
            /\ last1' = 0 /\ last2' = 0
            /\ demo_mode' = TRUE
            /\ initOutcome' = "fallback"
       ELSE \* lines 241-268
            /\ nh' = nh + 2
            /\ open' = open \cup {h1, h2}
            /\ cap1' = h1 /\ cap2' = h2
            /\ workers' = workers \o <<NewWorker(h1, QueueMaxsize),
                                       NewWorker(h2, QueueMaxsize)>>
            /\ cw1' = k + 1 /\ cw2' = k + 2
            /\ initOutcome' = "cameras"
            /\ UNCHANGED <<demo_mode, recording, stop_requested,
                           frame_preview, last1, last2>>
    /\ UNCHANGED <<env, loops, starts, pick, job, files, io, app, merger>>

Initialize ==
    /\ inits + starts < MaxCalls
    /\ \E res \in Resolutions, n \in 0..MaxCams, o1, o2 \in BOOLEAN :
          InitializeWith(res, n, o1, o2)

\* Thread.start() raises RuntimeError on a thread that was started before
StartRaises(w) == workers[w].st # "new"

\* start(out_path): lines 275-289.  The application initializes the recorder
\* when it is constructed (app.py 99-103), before any start.
Start ==
    /\ inits > 0
    /\ inits + starts < MaxCalls
    /\ starts' = starts + 1
    /\ recording' = TRUE
    /\ stop_requested' = FALSE
    /\ frame_preview' = NoFrame
    /\ IF ~demo_mode /\ cw1 # 0 /\ cw2 # 0
       THEN IF StartRaises(cw1)
            THEN UNCHANGED <<workers, loops>>
            ELSE IF StartRaises(cw2)
            THEN /\ workers' = [workers EXCEPT ![cw1].st = "run"]
                 /\ UNCHANGED loops
            ELSE /\ workers' = [workers EXCEPT ![cw1].st = "run",
                                               ![cw2].st = "run"]
                 /\ loops' = Append(loops, NewLoop)
       ELSE /\ loops' = Append(loops, NewLoop)
            /\ UNCHANGED workers
    /\ UNCHANGED <<env, width, height, cap1, cap2, open, nh, demo_mode, cw1,
                   cw2, last1, last2, inits, initOutcome, ready,
                   pick, job, files, io, app, merger>>

\* ------------------------------------------------------- CameraWorker.run

\* the thread leaves run(): lines 144-149 clear the queue
WorkerExit(r) ==
    [r EXCEPT !.st = "done", !.q = <<>>, !.pc = "top", !.cur = 0, !.n = 0]

\* put_nowait(frame) at line 126
PutFirst(r, f) ==
    IF Len(r.q) < r.maxsize
    THEN [r EXCEPT !.q = Append(r.q, f), !.n = f]
    ELSE [r EXCEPT !.pc = "full", !.cur = f, !.n = f]

\* the eviction with the newest queued frame removed instead of the oldest
EvictNewest(r) ==
    IF r.q = <<>>
    THEN [r EXCEPT !.pc = "retry"]
    ELSE [r EXCEPT !.q = SubSeq(r.q, 1, Len(r.q) - 1), !.pc = "put"]

\* get_nowait() at line 130: remove the oldest frame
EvictOldest(r) ==
    IF r.q = <<>>
    THEN [r EXCEPT !.pc = "retry"]
    ELSE [r EXCEPT !.q = Tail(r.q), !.pc = "put"]

\* put_nowait(frame) at line 131; queue.Full there is not caught by
\* "except queue.Empty" and reaches the handler of line 139
PutAfterEvict(r) ==
    IF Len(r.q) < r.maxsize
    THEN [r EXCEPT !.q = Append(r.q, r.cur), !.pc = "top", !.cur = 0]
    ELSE WorkerExit([r EXCEPT !.errEv = TRUE, !.last_error = CaptureError])

\* put_nowait(frame) at line 135; queue.Full is passed over
PutRetryDrops(r) == [r EXCEPT !.pc = "top", !.cur = 0]
PutRetry(r) ==
    IF Len(r.q) < r.maxsize
    THEN [r EXCEPT !.q = Append(r.q, r.cur), !.pc = "top", !.cur = 0]
    ELSE [r EXCEPT !.pc = "top", !.cur = 0]

\* the pass with a failed read treated like a lost camera
WorkerTopFailExits(r, rd, lim) ==
    IF r.stopEv THEN WorkerExit(r)
    ELSE IF r.cam \notin open \/ rd \in {"gone", "fail"}
    THEN WorkerExit([r EXCEPT !.errEv = TRUE, !.last_error = Disconnected])
    ELSE IF rd = "exc"
    THEN WorkerExit([r EXCEPT !.errEv = TRUE, !.last_error = CaptureError])
    ELSE IF r.n >= lim THEN r
    ELSE PutFirst(r, r.n + 1)

\* one pass of the while loop up to the first put_nowait: lines 99-126.
\* rd is what the camera does in this pass: "gone" when isOpened() is false
\* although the handle was not released (the device went away), otherwise the
\* outcome of grab/retrieve: a frame, no frame, or an exception.
WorkerTop(r, rd, lim) ==
    IF r.stopEv THEN WorkerExit(r)
    ELSE IF r.cam \notin open \/ rd = "gone"
    THEN WorkerExit([r EXCEPT !.errEv = TRUE, !.last_error = Disconnected])
    ELSE IF rd = "exc"
    THEN WorkerExit([r EXCEPT !.errEv = TRUE, !.last_error = CaptureError])
    ELSE IF rd = "fail" \/ r.n >= lim THEN r
    ELSE PutFirst(r, r.n + 1)

WorkerStep(w, lim) ==
    /\ workers[w].st = "run"
    /\ \E rd \in {"ok", "fail", "exc", "gone"} :
          workers' = [workers EXCEPT ![w] =
              CASE workers[w].pc = "top"   -> WorkerTop(workers[w], rd, lim)
                [] workers[w].pc = "full"  -> EvictOldest(workers[w])
                [] workers[w].pc = "put"   -> PutAfterEvict(workers[w])
                [] workers[w].pc = "retry" -> PutRetry(workers[w])]
    /\ workers' # workers
    /\ UNCHANGED <<env, loops, inits, starts, initOutcome, ready,
                   pick, job, files, io, app, merger>>
    /\ UNCHANGED recVars

WorkerRun == \E w \in DOMAIN workers : WorkerStep(w, MaxFrames)

\* ------------------------------------------------ DualCameraRecorder._loop

\* lines 328-334
WriterFps(fps1, fps2) ==
    LET cands == {f \in {fps1, fps2} : f > 1}
    IN  IF cands = {} THEN TargetFps
        ELSE Max(MinWriterFps, Min(MaxWriterFps, SetMin(cands)))

\* lines 339-340 and 450-451: the locals combo_width and combo_height, and
\* the recorder's height as it is when the line runs
PreferMjpg(cwid, chei) ==
    cwid * chei >= 1920 * 1080 \/ height >= HiResHeight
TryCodecs(cwid, chei) ==
    IF PreferMjpg(cwid, chei) THEN <<"MJPG", "XVID">> ELSE <<"XVID", "MJPG">>

\* lines 343-352 and 454-463: the first codec of try whose writer opens
FirstOpening(try, ok) ==
    IF try[1] \in ok THEN try[1] ELSE IF try[2] \in ok THEN try[2] ELSE "none"

\* lines 303-364: the locals of _loop.  f1/f2 are the rates the cameras
\* report, ok the codecs whose VideoWriter opens.
LoopBegin(l) ==
    /\ loops[l].pc = "begin"
    /\ IF demo_mode
       THEN loops' = [loops EXCEPT ![l].pc = "run", ![l].mode = "demo",
                                   ![l].combo_width = width * 2,
                                   ![l].combo_height = height]
       ELSE \E f1, f2 \in CamFps, ok \in SUBSET Codecs :
               LET fps == IF env = "cv2"
                          THEN WriterFps(IF cap1 \in open THEN f1 ELSE 0,
                                         IF cap2 \in open THEN f2 ELSE 0)
                          ELSE TargetFps
                   cod == IF env = "cv2"
                          THEN FirstOpening(TryCodecs(width * 2, height), ok)
                          ELSE "none"
               IN  loops' = [loops EXCEPT
                       ![l].pc = "run",
                       ![l].combo_width = width * 2,
                       ![l].combo_height = height,
                       ![l].mode = IF cod = "none" THEN "buffer" ELSE "stream",
                       ![l].fps = fps,
                       ![l].codec = cod,
                       ![l].opens = IF env = "cv2" THEN ok ELSE {},
                       ![l].out = IF cod = "none" THEN "none" ELSE "open",
                       ![l].throttle = IF height >= HiResHeight
                                       THEN HiResPreviewThrottle ELSE 1]
    /\ UNCHANGED <<env, workers, inits, starts, initOutcome, ready,
                   pick, job, files, io, app, merger>>
    /\ UNCHANGED recVars

\* the while condition of lines 312 and 367
LoopCond(l) ==
    recording /\ ~stop_requested
              /\ loops[l].el * TickSeconds <= MAX_RECORD_SECONDS

\* the poll with the second worker forgotten
WorkerErrorFirstOnly == cw1 # 0 /\ workers[cw1].errEv

\* lines 370-371
WorkerError ==
    \/ cw1 # 0 /\ workers[cw1].errEv
    \/ cw2 # 0 /\ workers[cw2].errEv

\* leaving the while loop: lines 432-439
LoopExit(l, why) ==
    /\ loops' = [loops EXCEPT
           ![l].pc = "save",
           ![l].why = why,
           ![l].out = IF loops[l].out = "open" THEN "closed" ELSE loops[l].out]
    /\ recording' = FALSE
    /\ UNCHANGED <<env, width, height, cap1, cap2, open, nh, demo_mode,
                   stop_requested, frame_preview, cw1, cw2, last1, last2,
                   workers, inits, starts, initOutcome, ready,
                   pick, job, files, io, app, merger>>

ExitReason(l) ==
    IF loops[l].el * TickSeconds > MAX_RECORD_SECONDS /\ recording /\ ~stop_requested
    THEN "timeout" ELSE "stop"

\* the write step without the first-frame guarantee of lines 413-415
WriteStepNoForce(r, dt) ==
    LET a1 == r.accum + r.fps * dt
        count == Trunc(a1, PaceDenom)
    IN  IF count > 0
        THEN [r EXCEPT !.accum = a1 - count * PaceDenom,
                       !.total = r.total + count,
                       !.paced = r.paced + r.fps * dt,
                       !.stepped = TRUE]
        ELSE [r EXCEPT !.accum = a1,
                       !.paced = r.paced + r.fps * dt,
                       !.stepped = TRUE]

\* the write step without the decrement of line 419
WriteStepNoDecrement(r, dt) ==
    LET a1 == r.accum + r.fps * dt
        c0 == Trunc(a1, PaceDenom)
        count == IF r.total = 0 /\ c0 = 0 THEN 1 ELSE c0
    IN  IF count > 0
        THEN [r EXCEPT !.accum = a1,
                       !.total = r.total + count,
                       !.paced = r.paced + r.fps * dt,
                       !.stepped = TRUE]
        ELSE [r EXCEPT !.accum = a1,
                       !.paced = r.paced + r.fps * dt,
                       !.stepped = TRUE]

\* lines 408-420: one write step after dt ticks of 1/PaceDenom second
WriteStep(r, dt) ==
    LET a1 == r.accum + r.fps * dt
        c0 == Trunc(a1, PaceDenom)
        count == IF r.total = 0 /\ c0 = 0 THEN 1 ELSE c0
    IN  IF count > 0
        THEN [r EXCEPT !.accum = a1 - count * PaceDenom,
                       !.total = r.total + count,
                       !.paced = r.paced + r.fps * dt,
                       !.stepped = TRUE]
        ELSE [r EXCEPT !.accum = a1,
                       !.paced = r.paced + r.fps * dt,
                       !.stepped = TRUE]

\* lines 422-426
Published(r, combo) == IF r.fc = 0 THEN combo ELSE frame_preview
Counted(r) == [r EXCEPT !.fc = (r.fc + 1) % r.throttle]

\* one pass of the demo loop: lines 312-324.  Without numpy the pass only
\* sleeps.  The frames list holds at most MaxBuf frames: a pass that would
\* append one more waits for the loop condition to turn false.
DemoIter(l) ==
    /\ loops[l].pc = "run" /\ loops[l].mode = "demo"
    /\ IF ~LoopCond(l) THEN LoopExit(l, ExitReason(l))
       ELSE /\ env # "none"
            /\ Len(loops[l].frames) < MaxBuf
            /\ loops' = [loops EXCEPT
                   ![l].frames = Append(loops[l].frames, DemoFrame)]
            /\ frame_preview' = DemoFrame
            /\ UNCHANGED <<env, width, height, cap1, cap2, open, nh, demo_mode,
                           recording, stop_requested, cw1, cw2, last1, last2,
                           workers, inits, starts, initOutcome, ready,
                   pick, job, files, io, app, merger>>

\* line 406 with the list cut down to the frame just appended
BufferedLatestOnly(r, combo) == [r EXCEPT !.frames = <<combo>>]

\* line 406: frames.append(combo)
Buffered(r, combo) == [r EXCEPT !.frames = Append(r.frames, combo)]

\* the pass with line 396 skipping only when both frames are missing
RealPassOneHalf(l, lim) ==
    LET got1 == IF cw1 # 0 /\ workers[cw1].q # <<>>
                THEN Head(workers[cw1].q) ELSE 0
        got2 == IF cw2 # 0 /\ workers[cw2].q # <<>>
                THEN Head(workers[cw2].q) ELSE 0
        f1 == IF got1 # 0 THEN got1 ELSE IF cw1 # 0 THEN last1 ELSE 0
        f2 == IF got2 # 0 THEN got2 ELSE IF cw2 # 0 THEN last2 ELSE 0
        combo == <<f1, f2>>
        popped == [i \in DOMAIN workers |->
                     IF (i = cw1 /\ got1 # 0) \/ (i = cw2 /\ got2 # 0)
                     THEN [workers[i] EXCEPT !.q = Tail(workers[i].q)]
                     ELSE workers[i]]
    IN
    /\ loops[l].pc = "run" /\ loops[l].mode \in {"stream", "buffer"}
    /\ IF ~LoopCond(l) THEN LoopExit(l, ExitReason(l))
       ELSE IF WorkerError THEN LoopExit(l, "error")
       ELSE /\ workers' = popped
            /\ last1' = IF got1 # 0 THEN got1 ELSE last1
            /\ last2' = IF got2 # 0 THEN got2 ELSE last2
            /\ IF f1 = 0 /\ f2 = 0
               THEN UNCHANGED <<loops, frame_preview>>
               ELSE /\ frame_preview' = Published(loops[l], combo)
                    /\ IF loops[l].mode = "buffer"
                       THEN /\ Len(loops[l].frames) < lim
                            /\ loops' = [loops EXCEPT ![l] =
                                   Counted(Buffered(loops[l], combo))]
                       ELSE \E dt \in 0..MaxDt :
                               /\ WriteStep(loops[l], dt).total <= MaxWritten
                               /\ loops' = [loops EXCEPT ![l] =
                                      Counted(WriteStep(loops[l], dt))]
            /\ UNCHANGED <<env, width, height, cap1, cap2, open, nh, demo_mode,
                           recording, stop_requested, cw1, cw2, inits, starts,
                           initOutcome, ready,
                   pick, job, files, io, app, merger>>

\* one pass of the real-camera loop: lines 367-430.  Both get_frame calls
\* and the write step are one step.  A loop buffers at most lim frames and
\* writes at most MaxWritten; dt = 0 is always possible.
RealPass(l, lim) ==
    LET got1 == IF cw1 # 0 /\ workers[cw1].q # <<>>
                THEN Head(workers[cw1].q) ELSE 0
        got2 == IF cw2 # 0 /\ workers[cw2].q # <<>>
                THEN Head(workers[cw2].q) ELSE 0
        f1 == IF got1 # 0 THEN got1 ELSE IF cw1 # 0 THEN last1 ELSE 0
        f2 == IF got2 # 0 THEN got2 ELSE IF cw2 # 0 THEN last2 ELSE 0
        combo == <<f1, f2>>
        popped == [i \in DOMAIN workers |->
                     IF (i = cw1 /\ got1 # 0) \/ (i = cw2 /\ got2 # 0)
                     THEN [workers[i] EXCEPT !.q = Tail(workers[i].q)]
                     ELSE workers[i]]
    IN
    /\ loops[l].pc = "run" /\ loops[l].mode \in {"stream", "buffer"}
    /\ IF ~LoopCond(l) THEN LoopExit(l, ExitReason(l))
       ELSE IF WorkerError THEN LoopExit(l, "error")
       ELSE /\ workers' = popped
            /\ last1' = IF got1 # 0 THEN got1 ELSE last1
            /\ last2' = IF got2 # 0 THEN got2 ELSE last2
            /\ IF f1 = 0 \/ f2 = 0
               THEN UNCHANGED <<loops, frame_preview>>
               ELSE /\ frame_preview' = Published(loops[l], combo)
                    /\ IF loops[l].mode = "buffer"
                       THEN /\ Len(loops[l].frames) < lim
                            /\ loops' = [loops EXCEPT ![l] =
                                   Counted(Buffered(loops[l], combo))]
                       ELSE \E dt \in 0..MaxDt :
                               /\ WriteStep(loops[l], dt).total <= MaxWritten
                               /\ loops' = [loops EXCEPT ![l] =
                                      Counted(WriteStep(loops[l], dt))]
            /\ UNCHANGED <<env, width, height, cap1, cap2, open, nh, demo_mode,
                           recording, stop_requested, cw1, cw2, inits, starts,
                           initOutcome, ready,
                   pick, job, files, io, app, merger>>

RealIter(l) == RealPass(l, MaxBuf)

LoopIter(l) == DemoIter(l) \/ RealIter(l)

\* lines 467-468 with the list written back to front
FlushedReversed(frames) ==
    [i \in 1..Len(frames) |-> frames[Len(frames) + 1 - i]]

\* lines 467-468: out.write(frame) for every frame of the list, in its order
Flushed(frames) == [i \in 1..Len(frames) |-> frames[i]]

\* lines 441-480: the buffered frames are written when the loop has ended
LoopSave(l) ==
    /\ loops[l].pc = "save"
    /\ IF loops[l].frames # <<>> /\ env = "cv2"
       THEN \E ok \in SUBSET Codecs :
               LET cod == FirstOpening(TryCodecs(loops[l].combo_width,
                                                 loops[l].combo_height), ok)
               IN  loops' = [loops EXCEPT
                       ![l].pc = "done",
                       ![l].saved = IF cod = "none" THEN "failed" ELSE "video",
                       ![l].file = IF cod = "none" THEN <<>>
                                   ELSE Flushed(loops[l].frames)]
       ELSE IF loops[l].frames # <<>>
       THEN loops' = [loops EXCEPT ![l].pc = "done", ![l].saved = "text"]
       ELSE loops' = [loops EXCEPT ![l].pc = "done"]
    /\ UNCHANGED <<env, workers, inits, starts, initOutcome, ready,
                   pick, job, files, io, app, merger>>
    /\ UNCHANGED recVars

LoopRun == \E l \in DOMAIN loops : LoopBegin(l) \/ LoopIter(l) \/ LoopSave(l)

\* TickSeconds pass for every loop that is inside its while loop
Ticking(r) == r.pc = "run" /\ r.el * TickSeconds <= MAX_RECORD_SECONDS

Tick ==
    /\ \E l \in DOMAIN loops : Ticking(loops[l])
    /\ loops' = [l \in DOMAIN loops |->
                    IF Ticking(loops[l])
                    THEN [loops[l] EXCEPT !.el = loops[l].el + 1]
                    ELSE loops[l]]
    /\ UNCHANGED <<env, workers, inits, starts, initOutcome, ready,
                   pick, job, files, io, app, merger>>
    /\ UNCHANGED recVars

Next ==
    \/ Initialize
    \/ Start
    \/ Stop
    \/ Release
    \/ WorkerRun
    \/ LoopRun
    \/ Tick

Spec == Init /\ [][Next]_vars

\* ------------------------------------------------ a standalone CameraWorker
\* CameraWorker(camera, w, h, queue_maxsize=N) started on an open camera, with
\* nothing reading its queue.

InitQ ==
    /\ env = "cv2"
    /\ width = 640 /\ height = 480
    /\ cap1 = 0 /\ cap2 = 0
    /\ open = {1} /\ nh = 1
    /\ demo_mode = FALSE /\ recording = FALSE /\ stop_requested = FALSE
    /\ frame_preview = NoFrame
    /\ cw1 = 0 /\ cw2 = 0
    /\ last1 = 0 /\ last2 = 0
    /\ \E N \in 1..MaxCap :
          workers = <<[NewWorker(1, N) EXCEPT !.st = "run"]>>
    /\ loops = <<>>
    /\ inits = 0 /\ starts = 0
    /\ initOutcome = "none"
    /\ ready = FALSE
    /\ pick = NoCall /\ job = NoCall
    /\ AuxIdle

WorkerPush == WorkerStep(1, MaxPush)

\* CameraWorker.stop(): lines 165-167
WorkerStop ==
    /\ workers[1].st = "run"
    /\ ~workers[1].stopEv
    /\ workers' = [workers EXCEPT ![1].stopEv = TRUE]
    /\ UNCHANGED <<env, loops, inits, starts, initOutcome, ready,
                   pick, job, files, io, app, merger>>
    /\ UNCHANGED recVars

NextQ == WorkerPush \/ WorkerStop

SpecQ == InitQ /\ [][NextQ]_vars

\* --------------------------------------- one session with both cameras open
\* The recorder right after initialize(w, h) opened two cameras and start()
\* spawned the loop thread; the workers capture up to MaxFeed frames each and
\* the loop keeps up to MaxFlush frames in its list.

InitB ==
    /\ env = "cv2"
    /\ \E res \in Resolutions : width = res[1] /\ height = res[2]
    /\ cap1 = 1 /\ cap2 = 2
    /\ open = {1, 2} /\ nh = 2
    /\ demo_mode = FALSE /\ recording = TRUE /\ stop_requested = FALSE
    /\ frame_preview = NoFrame
    /\ cw1 = 1 /\ cw2 = 2
    /\ last1 = 0 /\ last2 = 0
    /\ workers = <<[NewWorker(1, QueueMaxsize) EXCEPT !.st = "run"],
                   [NewWorker(2, QueueMaxsize) EXCEPT !.st = "run"]>>
    /\ loops = <<NewLoop>>
    /\ inits = 1 /\ starts = 1
    /\ initOutcome = "cameras"
    /\ ready = TRUE
    /\ pick = NoCall /\ job = NoCall
    /\ AuxIdle

WorkerFeed == \E w \in DOMAIN workers : WorkerStep(w, MaxFeed)

SessionRun == LoopBegin(1) \/ RealPass(1, MaxFlush) \/ LoopSave(1)

NextB == WorkerFeed \/ SessionRun \/ Stop \/ Tick

SpecB == InitB /\ [][NextB]_vars

\* ---------------------------------------------- analysis.pick_impact_frames
\* A clip is its frame count, the frames whose read fails (bad) and its
\* picture: the scene is still except for one change at frame K, so frame i
\* shows level 0 before K and level 1 from K on (K = 0: no change at all).
\* The mean absolute difference of two frames is the difference of their
\* levels.

None == -1

\* the recorder is not constructed
CamIdle ==
    /\ width = 0 /\ height = 0
    /\ cap1 = 0 /\ cap2 = 0
    /\ open = {} /\ nh = 0
    /\ demo_mode = FALSE /\ recording = FALSE /\ stop_requested = FALSE
    /\ frame_preview = NoFrame
    /\ cw1 = 0 /\ cw2 = 0
    /\ last1 = 0 /\ last2 = 0
    /\ workers = <<>>
    /\ loops = <<>>
    /\ inits = 0 /\ starts = 0
    /\ initOutcome = "none"
    /\ ready = FALSE

\* pick_impact_frames(video_path, coarse_stride, refine_window, ignore_edge,
\* offset_frames) is called: lines 160-164
NewPick(opened, total, bad, K, stride, window, ignore, offset) ==
    [pc |-> "call", opened |-> opened, total |-> total, bad |-> bad, K |-> K,
     coarse_stride |-> stride, refine_window |-> window,
     ignore_edge |-> ignore, offset_frames |-> offset,
     start_idx |-> 0, end_idx |-> 0, best_idx |-> 0, coarse_reads |-> 0,
     win_lo |-> 0, win_hi |-> 0, peak |-> 0, before_idx |-> 0,
     after_idx |-> 0, result |-> "none", err |-> "none"]

InitP ==
    /\ env \in {"cv2", "none"}
    /\ CamIdle
    /\ job = NoCall
    /\ AuxIdle
    /\ \E opened \in BOOLEAN, total \in 0..MaxTotal :
       \E bad \in SUBSET (0..(total - 1)), K \in 0..Max(total - 1, 0),
          stride \in 0..MaxStride, window \in 0..MaxWindow,
          ignore \in 0..MaxIgnore, offset \in 0..MaxOffset :
          pick = NewPick(opened, total, bad, K, stride, window, ignore, offset)

Raised(r, err) == [r EXCEPT !.pc = "done", !.result = "raise", !.err = err]

\* line 189 with the bound one frame lower
TooShortBelowTwo(total) == total < 2

\* line 189
TooShort(total) == total <= 2

\* lines 178-195: the checks, the clamp of the stride and the scan range
PickOpen ==
    /\ pick.pc = "call"
    /\ pick' =
         IF env # "cv2" THEN Raised(pick, "OpenCV not available")
         ELSE IF ~pick.opened THEN Raised(pick, "Cannot open video")
         ELSE IF TooShort(pick.total) THEN Raised(pick, "Video too short")
         ELSE LET s0 == Max(1, pick.ignore_edge)
                  e0 == Max(s0 + 1, pick.total - 1 - pick.ignore_edge)
              IN  [pick EXCEPT
                     !.pc = "coarse",
                     !.coarse_stride = Max(1, pick.coarse_stride),
                     !.start_idx = IF s0 >= e0 THEN 1 ELSE s0,
                     !.end_idx = IF s0 >= e0 THEN pick.total - 1 ELSE e0]
    /\ UNCHANGED <<camVars, job, files, io, app, merger>>

\* lines 198-201: read_at(idx); None when the read fails
ReadAt(r, idx) ==
    IF idx \in 0..(r.total - 1) /\ idx \notin r.bad
    THEN (IF r.K > 0 /\ idx >= r.K THEN 1 ELSE 0)
    ELSE None

\* lines 210-212 and 231-233: the frame the first difference is taken from
FirstPrev(r, lo) ==
    IF ReadAt(r, lo - 1) # None THEN ReadAt(r, lo - 1) ELSE ReadAt(r, lo)

\* lines 220-221
Score(cur, prev) == IF cur >= prev THEN cur - prev ELSE prev - cur

\* lines 215-224 and 236-245: the scan from idx to hi in steps of step, with
\* the frame read last, the best score and its index, and the reads that
\* gave a frame
RECURSIVE Scan(_, _, _, _, _, _, _, _)
Scan(r, idx, hi, step, prev, score, best, reads) ==
    IF idx > hi THEN [score |-> score, idx |-> best, reads |-> reads]
    ELSE LET cur == ReadAt(r, idx)
         IN  IF cur = None
             THEN Scan(r, idx + step, hi, step, prev, score, best, reads)
             ELSE IF Score(cur, prev) > score
             THEN Scan(r, idx + step, hi, step, cur, Score(cur, prev), idx,
                       reads + 1)
             ELSE Scan(r, idx + step, hi, step, cur, score, best, reads + 1)

\* lines 208-224: the coarse pass.  to_gray(None) at line 213 raises cv2.error
PickCoarse ==
    /\ pick.pc = "coarse"
    /\ pick' =
         LET prev == FirstPrev(pick, pick.start_idx)
         IN  IF prev = None THEN Raised(pick, "cv2.error")
             ELSE LET c == Scan(pick, pick.start_idx, pick.end_idx,
                                pick.coarse_stride, prev, -1, pick.start_idx, 0)
                  IN  [pick EXCEPT !.pc = "fine", !.best_idx = c.idx,
                                   !.coarse_reads = c.reads]
    /\ UNCHANGED <<camVars, job, files, io, app, merger>>

\* lines 226-245: the fine pass
PickFine ==
    /\ pick.pc = "fine"
    /\ pick' =
         LET lo == Max(1, pick.best_idx - pick.refine_window)
             hi == Min(pick.total - 1, pick.best_idx + pick.refine_window)
             prev == FirstPrev(pick, lo)
         IN  IF prev = None
             THEN Raised([pick EXCEPT !.win_lo = lo, !.win_hi = hi],
                         "cv2.error")
             ELSE [pick EXCEPT
                     !.pc = "pair", !.win_lo = lo, !.win_hi = hi,
                     !.peak = Scan(pick, lo, hi, 1, prev, -1,
                                   pick.best_idx, 0).idx]
    /\ UNCHANGED <<camVars, job, files, io, app, merger>>

\* lines 247-254
PickReturn ==
    /\ pick.pc = "pair"
    /\ pick' =
         LET b == Max(0, pick.peak - pick.offset_frames)
             a == Min(pick.total - 1, pick.peak + pick.offset_frames)
             r == [pick EXCEPT !.before_idx = b, !.after_idx = a]
         IN  IF ReadAt(pick, b) = None \/ ReadAt(pick, a) = None
             THEN Raised(r, "Failed to read before/after frames")
             ELSE [r EXCEPT !.pc = "done", !.result = "pair"]
    /\ UNCHANGED <<camVars, job, files, io, app, merger>>

NextP == PickOpen \/ PickCoarse \/ PickFine \/ PickReturn

SpecP == InitP /\ [][NextP]_vars

\* -------------------------------------------------- analysis.analyze_bottle
\* A frame is None or the list of external contours cv2.findContours returns
\* on its edge image; a contour is its area and its bounding rectangle (top
\* edge y, width w, height h; y grows downwards).  A float is a pair
\* <<numerator, denominator>> with a positive denominator; the inputs keep
\* clear of values that are equal as fractions and differ as floats.

MainContourMinArea == 200
NoiseContourArea == 75

Gt(a, b) == a[1] * b[2] > b[1] * a[2]
Abs(n) == IF n >= 0 THEN n ELSE -n

\* utils.load_analysis_config: the defaults of lines 12-17
Defaults ==
    [deformation_threshold |-> <<15, 100>>, spill_min_area |-> <<400, 1>>,
     shatter_contour_increase_ratio |-> <<2, 1>>,
     shatter_min_contour_count |-> 5]

\* the thresholds after app.py 853-862 raised each of them to 1.1 times a
\* metric value: deformation 0.2, spill area 450, shatter ratio 8/3
Adjusted ==
    [deformation_threshold |-> <<22, 100>>, spill_min_area |-> <<495, 1>>,
     shatter_contour_increase_ratio |-> <<88, 30>>,
     shatter_min_contour_count |-> 5]

Configs == {Defaults, Adjusted}

\* analysis_config.json or its .bak: absent, not parseable, or a config
ConfigFiles ==
    {[st |-> "missing", cfg |-> Defaults], [st |-> "corrupt", cfg |-> Defaults]}
        \cup {[st |-> "ok", cfg |-> c] : c \in Configs}

\* utils.save_analysis_config: lines 46-56
SaveAnalysisConfig(c) ==
    [main |-> [st |-> "ok", cfg |-> c], backup |-> [st |-> "ok", cfg |-> c]]

\* lines 38-41: keys absent from the file get their default
Backfilled(c) ==
    [k \in DOMAIN Defaults |-> IF k \in DOMAIN c THEN c[k] ELSE Defaults[k]]

\* utils.load_analysis_config: lines 10-44; the config returned and the
\* files it leaves
LoadAnalysisConfigDefaultsOnly(store) == [config |-> Defaults, store |-> store]
LoadAnalysisConfig(store) ==
    IF store.main.st = "missing"
    THEN IF store.backup.st = "ok"
         THEN [config |-> store.backup.cfg,
               store |-> SaveAnalysisConfig(store.backup.cfg)]
         ELSE [config |-> Defaults, store |-> SaveAnalysisConfig(Defaults)]
    ELSE IF store.main.st = "ok"
    THEN [config |-> Backfilled(store.main.cfg), store |-> store]
    ELSE [config |-> Defaults, store |-> store]

NullFrame == [null |-> TRUE, contours |-> <<>>]

Bottle(w) == [area |-> 1000, y |-> 0, w |-> w, h |-> 10]
Fragment == [area |-> 100, y |-> 4, w |-> 10, h |-> 10]
Puddles == <<[area |-> 450, y |-> 8, w |-> 45, h |-> 10],
             [area |-> 480, y |-> 8, w |-> 48, h |-> 10],
             [area |-> 470, y |-> 3, w |-> 47, h |-> 10]>>

\* the frame showing a bottle of width bw (0: none), n fragments and the
\* puddles ps
FrameOf(bw, n, ps) ==
    [null |-> FALSE,
     contours |-> (IF bw = 0 THEN <<>> ELSE <<Bottle(bw)>>)
                    \o [i \in 1..n |-> Fragment]
                    \o SelectSeq(Puddles, LAMBDA c : c \in ps)]

PuddleSet == {Puddles[i] : i \in DOMAIN Puddles}

BeforeFrames ==
    {NullFrame} \cup {FrameOf(bw, n, {}) : bw \in {0, 10}, n \in 0..MaxFragments}
AfterFrames ==
    {NullFrame} \cup {FrameOf(bw, n, ps) : bw \in {0, 10, 11, 12},
                                           n \in 0..MaxFragments,
                                           ps \in SUBSET PuddleSet}

Materials == {"Plastic", "Steel", "Glass", "Ceramic"}

\* analyze_bottle(frame_before, frame_after, material_type) is called
NewJob(before, after, material, store) ==
    [pc |-> "call", before |-> before, after |-> after,
     material |-> material, store |-> store, config |-> Defaults,
     ran |-> {},
     spill_ran |-> FALSE, ratio_change |-> <<0, 1>>, result |-> "none",
     reason |-> "none", metric |-> "none", value |-> <<0, 1>>]

InitA ==
    /\ env \in {"cv2", "none"}
    /\ CamIdle
    /\ pick = NoCall
    /\ AuxIdle
    /\ \E before \in BeforeFrames, after \in AfterFrames,
          material \in Materials, m \in ConfigFiles, b \in ConfigFiles :
          job = NewJob(before, after, material, [main |-> m, backup |-> b])

\* return {"result": ..., "reason": ...}
Returned(r, result, reason) ==
    [r EXCEPT !.pc = "done", !.result = result, !.reason = reason]

\* return {"result": ..., "reason": ..., "metric": ..., "value": ...}
Measured(r, result, reason, metric, value) ==
    [r EXCEPT !.pc = "done", !.result = result, !.reason = reason,
              !.metric = metric, !.value = value]

\* an exception leaves the call
Escaped(r, exc) == [r EXCEPT !.pc = "done", !.result = "raise", !.reason = exc]

\* index of the first contour of largest area: max(contours, key=area)
Largest(cs) ==
    CHOOSE i \in DOMAIN cs :
        /\ \A j \in DOMAIN cs : cs[j].area <= cs[i].area
        /\ \A j \in 1..(i - 1) : cs[j].area < cs[i].area

\* _get_main_contour: lines 9-33.  found is FALSE where the code returns
\* (None, 0).
GetMainContour(frame) ==
    LET none == [found |-> FALSE, contour |-> Fragment, ratio |-> <<0, 1>>]
    IN  IF frame.null \/ frame.contours = <<>> THEN none
        ELSE LET c == frame.contours[Largest(frame.contours)]
             IN  IF c.area < MainContourMinArea THEN none
                 ELSE [found |-> TRUE, contour |-> c,
                       ratio |-> IF c.h > 0 THEN <<c.w, c.h>> ELSE <<0, 1>>]

\* line 151 with the after frame left unchecked
InvalidFramesBeforeOnly(before, after) == before.null

\* line 151
InvalidFrames(before, after) == before.null \/ after.null

\* line 154 with Steel left out
DeformableOnlyPlastic(material) == material = "Plastic"

\* line 154
Deformable(material) == material \in {"Plastic", "Steel"}

\* analyze_bottle: lines 144-157, up to the call of the pipeline
AnalyzeBottle ==
    /\ job.pc = "call"
    /\ job' =
         IF env # "cv2"
         THEN Returned(job, "ERROR", "OpenCV is not available.")
         ELSE IF InvalidFrames(job.before, job.after)
         THEN Returned(job, "ERROR", "Invalid input frames provided.")
         ELSE IF Deformable(job.material)
         THEN [job EXCEPT !.pc = "deformation",
                          !.ran = job.ran \cup {"deformation"}]
         ELSE [job EXCEPT !.pc = "shatter", !.ran = job.ran \cup {"shatter"}]
    /\ UNCHANGED <<camVars, pick, files, io, app, merger>>

\* lines 58-63: the contours larger than the noise area
CountContours(frame) ==
    Len(SelectSeq(frame.contours, LAMBDA c : c.area > NoiseContourArea))

\* lines 71-72 with "or" in the place of "and"
ShatteredEither(ratio, count_after, config) ==
    \/ Gt(ratio, config.shatter_contour_increase_ratio)
    \/ count_after >= config.shatter_min_contour_count

\* lines 71-72
Shattered(ratio, count_after, config) ==
    /\ Gt(ratio, config.shatter_contour_increase_ratio)
    /\ count_after >= config.shatter_min_contour_count

\* analyze_shatter: lines 35-77.  cv2.cvtColor(None) at line 46 raises.
AnalyzeShatter ==
    /\ job.pc = "shatter"
    /\ job' =
         LET ld == LoadAnalysisConfig(job.store)
             r == [job EXCEPT !.store = ld.store, !.config = ld.config]
             c0 == CountContours(job.before)
             count_before == IF c0 = 0 THEN 1 ELSE c0
             count_after == CountContours(job.after)
             ratio == <<count_after, count_before>>
         IN  IF ~GetMainContour(job.before).found
             THEN Returned(r, "ERROR",
                           "No bottle detected in the frame before impact.")
             ELSE IF job.after.null THEN Escaped(r, "cv2.error")
             ELSE IF Shattered(ratio, count_after, ld.config)
             THEN Measured(r, "FAIL", "FAIL: Shattered.", "shatter_ratio", ratio)
             ELSE Measured(r, "PASS", "PASS: Not shattered.", "shatter_ratio",
                           ratio)
    /\ UNCHANGED <<camVars, pick, files, io, app, merger>>

\* lines 92-95
RatioChange(ratio_before, ratio_after) ==
    IF ratio_before[1] > 0
    THEN <<Abs(ratio_after[1] * ratio_before[2]
                 - ratio_before[1] * ratio_after[2]),
           ratio_after[2] * ratio_before[1]>>
    ELSE <<0, 1>>

\* line 97 switched off: the deformation analysis never fails a bottle
DeformedNever(ratio_change, config) == FALSE

\* line 97
Deformed(ratio_change, config) ==
    Gt(ratio_change, config.deformation_threshold)

\* analyze_deformation: lines 79-99, the deformation analysis
AnalyzeDeformation ==
    /\ job.pc = "deformation"
    /\ job' =
         LET ld == LoadAnalysisConfig(job.store)
             r == [job EXCEPT !.store = ld.store, !.config = ld.config]
             mb == GetMainContour(job.before)
             ma == GetMainContour(job.after)
             ratio_change == RatioChange(mb.ratio, ma.ratio)
         IN  IF ~mb.found
             THEN Returned(r, "ERROR",
                           "No bottle detected in the frame before impact.")
             ELSE IF ~ma.found
             THEN Returned(r, "ERROR",
                           "No bottle detected in the frame after impact.")
             ELSE IF Deformed(ratio_change, ld.config)
             THEN Measured([r EXCEPT !.ratio_change = ratio_change],
                           "FAIL", "FAIL: Deformed.", "deformation",
                           ratio_change)
             ELSE [r EXCEPT !.pc = "spill", !.ratio_change = ratio_change]
    /\ UNCHANGED <<camVars, pick, files, io, app, merger>>

\* lines 117-134: the contours of the after frame that count as a spill
SpillContours(frame, bottle, config) ==
    SelectSeq(frame.contours,
              LAMBDA c : /\ c # bottle
                         /\ Gt(<<c.area, 1>>, config.spill_min_area)
                         /\ c.area * 2 < bottle.area
                         /\ c.y * 10 > bottle.y * 10 + bottle.h * 6)

\* lines 115 and 133-134: the largest area in a list of contours
RECURSIVE MaxArea(_)
MaxArea(cs) ==
    IF cs = <<>> THEN 0
    ELSE IF Head(cs).area > MaxArea(Tail(cs)) THEN Head(cs).area
    ELSE MaxArea(Tail(cs))

\* analyze_deformation: lines 101-142, the spill detection
SpillCheck ==
    /\ job.pc = "spill"
    /\ job' =
         LET config == job.config
             r == [job EXCEPT !.spill_ran = TRUE]
             bottle == GetMainContour(job.after).contour
             spills == SpillContours(job.after, bottle, config)
         IN  IF job.after.contours = <<>>
             THEN Measured(r, "PASS", "PASS: No significant deformation.",
                           "deformation", job.ratio_change)
             ELSE IF Len(spills) > 0
             THEN Measured(r, "FAIL", "FAIL: Water spill detected.",
                           "spill_area", <<MaxArea(spills), 1>>)
             ELSE Measured(r, "PASS",
                           "PASS: No significant deformation or spillage.",
                           "deformation", job.ratio_change)
    /\ UNCHANGED <<camVars, pick, files, io, app, merger>>

NextA == AnalyzeBottle \/ AnalyzeShatter \/ AnalyzeDeformation \/ SpillCheck

SpecA == InitA /\ [][NextA]_vars

\* ------------------------------------- app.py: the manual override handler
\* BottleTestApp keeps one Analysis Result (the dict analyze_bottle returned,
\* or None) per bottle.  A dict is a record with the keys it has; None is the
\* record without keys.  Bottles are numbered from 1 here, from 0 in the code.
\* The handlers below run on the Tk main thread, one at a time.  The training
\* images _save_frames_for_training writes (lines 771-828) are left out.

NoResult == <<>>

\* the "reason" texts analyze_bottle composes are one text here
AnalysisReason == "analysis"

\* what analysis.analyze_bottle returns: analysis.py 42-152
AnalysisOutcomes ==
    {[result |-> "FAIL", reason |-> AnalysisReason, metric |-> "deformation",
      value |-> <<20, 100>>],
     [result |-> "PASS", reason |-> AnalysisReason, metric |-> "deformation",
      value |-> <<10, 100>>],
     [result |-> "FAIL", reason |-> AnalysisReason, metric |-> "spill_area",
      value |-> <<450, 1>>],
     [result |-> "FAIL", reason |-> AnalysisReason, metric |-> "shatter_ratio",
      value |-> <<8, 3>>],
     [result |-> "PASS", reason |-> AnalysisReason, metric |-> "shatter_ratio",
      value |-> <<4, 3>>],
     [result |-> "ERROR", reason |-> AnalysisReason]}

\* a threshold file written by a version that knew no spill threshold
PartialConfig ==
    [k \in DOMAIN Defaults \ {"spill_min_area"} |-> Adjusted[k]]

\* the configs a save of this or of an earlier version has written
StoredConfigs == Configs \cup {PartialConfig}

\* the two files when the application starts: none on a fresh installation,
\* else both as the latest save left them, the primary file possibly deleted
\* since
InstalledFiles ==
    {[main |-> [st |-> "missing", cfg |-> Defaults],
      backup |-> [st |-> "missing", cfg |-> Defaults]]}
        \cup {[main |-> [st |-> s, cfg |-> IF s = "ok" THEN c ELSE Defaults],
               backup |-> [st |-> "ok", cfg |-> c]] :
                 s \in {"ok", "missing"}, c \in StoredConfigs}

\* f"Manually overridden to {correct_result}": line 883
OverrideReason(correct_result) ==
    IF correct_result = "PASS" THEN "Manually overridden to PASS"
    ELSE "Manually overridden to FAIL"

\* value * 1.1 and value * 0.9 as fractions
Times(value, factor) == <<value[1] * factor[1], value[2] * factor[2]>>

\* the factors of lines 856-874; <<0, 1>>: neither branch of 854 / 866
FactorFixed(result, correct_result) == <<11, 10>>
Factor(result, correct_result) ==
    IF result = "FAIL" /\ correct_result = "PASS" THEN <<11, 10>>
    ELSE IF result = "PASS" /\ correct_result = "FAIL" THEN <<9, 10>>
    ELSE <<0, 1>>

\* the key assigned for a metric in the chains 855-863 and 867-875
ThresholdKeyDeformationOnly(metric) ==
    IF metric = "deformation" THEN "deformation_threshold" ELSE "none"
ThresholdKey(metric) ==
    IF metric = "deformation" THEN "deformation_threshold"
    ELSE IF metric = "spill_area" THEN "spill_min_area"
    ELSE IF metric = "shatter_ratio" THEN "shatter_contour_increase_ratio"
    ELSE "none"

\* config[key] = v
Assigned(config, key, v) ==
    [k \in DOMAIN config \cup {key} |-> IF k = key THEN v ELSE config[k]]

\* line 851: metric and value is not None
HasMetric(current_analysis) ==
    /\ "metric" \in DOMAIN current_analysis
    /\ "value" \in DOMAIN current_analysis

\* lines 852-875: adjustment_made
AdjustmentMade(current_analysis, correct_result) ==
    /\ HasMetric(current_analysis)
    /\ Factor(current_analysis.result, correct_result) # <<0, 1>>
    /\ ThresholdKey(current_analysis.metric) # "none"

InitF ==
    /\ env = "cv2"
    /\ CamIdle
    /\ pick = NoCall /\ job = NoCall /\ io = NoCall /\ merger = NoCall
    /\ files \in InstalledFiles
    /\ app = [current_bottle_index |-> 1, result_var |-> "",
              bottle_analysis_results |-> [i \in 1..MaxBottles |-> NoResult]]

\* _switch_bottle_to(index): lines 471-475
SwitchBottleTo ==
    /\ \E index \in 1..MaxBottles : app' = [app EXCEPT !.current_bottle_index = index]
    /\ UNCHANGED <<camVars, pick, job, files, io, merger>>

\* _begin_actual_recording: line 569
BeginActualRecording ==
    /\ app' = [app EXCEPT
                 !.result_var = "Recording Bottle",
                 !.bottle_analysis_results[app.current_bottle_index] = NoResult]
    /\ UNCHANGED <<camVars, pick, job, files, io, merger>>

\* _update_on_main_thread of an analysis of bottle idx: lines 734-739
UpdateOnMainThread ==
    /\ \E idx \in 1..MaxBottles, result \in AnalysisOutcomes :
          app' = [app EXCEPT !.result_var = "Bottle Analysis",
                             !.bottle_analysis_results[idx] = result]
    /\ UNCHANGED <<camVars, pick, job, files, io, merger>>

\* _override_analysis(correct_result): lines 830-886
OverrideAnalysisTo(correct_result) ==
    LET idx == app.current_bottle_index
        current_analysis == app.bottle_analysis_results[idx]
        loaded == LoadAnalysisConfig(files)
        key == ThresholdKey(current_analysis.metric)
        v == Times(current_analysis.value,
                   Factor(current_analysis.result, correct_result))
    IN  IF DOMAIN current_analysis = {}
        THEN UNCHANGED <<files, app>>
        ELSE IF current_analysis.result = correct_result
        THEN /\ app' = [app EXCEPT !.result_var = "Result confirmed"]
             /\ UNCHANGED files
        ELSE /\ files' = IF AdjustmentMade(current_analysis, correct_result)
                         THEN SaveAnalysisConfig(Assigned(loaded.config, key, v))
                         ELSE loaded.store
             /\ app' = [app EXCEPT
                          !.result_var =
                              IF AdjustmentMade(current_analysis, correct_result)
                              THEN "Thresholds adjusted. Training data saved."
                              ELSE @,
                          !.bottle_analysis_results[idx] =
                              Assigned(Assigned(current_analysis, "result",
                                                correct_result),
                                       "reason", OverrideReason(correct_result))]

OverrideAnalysis ==
    /\ \E correct_result \in {"PASS", "FAIL"} : OverrideAnalysisTo(correct_result)
    /\ UNCHANGED <<camVars, pick, job, io, merger>>

NextF == SwitchBottleTo \/ BeginActualRecording \/ UpdateOnMainThread \/ OverrideAnalysis

SpecF == InitF /\ [][NextF]_vars

\* ------------------------------------ utils.py: the two threshold files
\* One call of load_analysis_config or save_analysis_config at a time works
\* on the two files.  A file is the JSON object it holds (white space and
\* member order are not represented); opening a file for writing leaves it
\* empty until json.dump has written it, and an empty or half-written file
\* does not parse ("corrupt").  Step by step: open(ANALYSIS_CONFIG_FILE, "w"),
\* json.dump, open(BACKUP_CONFIG_FILE, "w"), json.dump.

Missing == [st |-> "missing", cfg |-> Defaults]
Corrupt == [st |-> "corrupt", cfg |-> Defaults]

\* json.dump(config, f, indent=2) completed: lines 51 and 54
Dumped(config) == [st |-> "ok", cfg |-> config]

NoReturn == [path |-> "none", config |-> Defaults, failed |-> FALSE]

\* no call is running; returned: what the latest load returned
IdleIO ==
    [pc |-> "idle", caller |-> "none", path |-> "none", config |-> Defaults,
     returned |-> NoReturn]

\* the files after a save of this or of an earlier version of the program,
\* or of a fresh installation
InitC ==
    /\ env = "cv2"
    /\ CamIdle
    /\ pick = NoCall /\ job = NoCall /\ app = NoCall /\ merger = NoCall
    /\ io = IdleIO
    /\ \/ files = [main |-> Missing, backup |-> Missing]
       \/ \E c \in StoredConfigs :
             files = [main |-> Dumped(c), backup |-> Dumped(c)]

\* the branch load_analysis_config takes: lines 19-44
LoadPath(f) ==
    IF f.main.st = "missing"
    THEN IF f.backup.st = "ok" THEN "restore" ELSE "defaults"
    ELSE IF f.main.st = "ok" THEN "main" ELSE "unreadable"

\* the dict the restore branch saves and returns: lines 23-27
RestoredBackfilled(config) == Backfilled(config)
Restored(config) == config

\* load_analysis_config(): lines 10-44, up to the return or to the call of
\* save_analysis_config
LoadCall ==
    /\ io.pc = "idle"
    /\ LET path == LoadPath(files)
       IN  CASE path = "main" ->
                  io' = [IdleIO EXCEPT !.returned =
                            [path |-> path, failed |-> FALSE,
                             config |-> Backfilled(files.main.cfg)]]
             [] path = "unreadable" ->
                  io' = [IdleIO EXCEPT !.returned =
                            [path |-> path, failed |-> FALSE,
                             config |-> Defaults]]
             [] path = "restore" ->
                  io' = [pc |-> "open_main", caller |-> "load", path |-> path,
                         config |-> Restored(files.backup.cfg),
                         returned |-> NoReturn]
             [] OTHER ->
                  io' = [pc |-> "open_main", caller |-> "load",
                         path |-> "defaults", config |-> Defaults,
                         returned |-> NoReturn]
    /\ UNCHANGED <<camVars, pick, job, files, app, merger>>

\* save_analysis_config(config) is called by the application: line 46
SaveCall ==
    /\ io.pc = "idle"
    /\ \E config \in Configs :
          io' = [pc |-> "open_main", caller |-> "save", path |-> "none",
                 config |-> config, returned |-> NoReturn]
    /\ UNCHANGED <<camVars, pick, job, files, app, merger>>

\* the call returns; a load returns its dict: lines 27, 33
Return(failed) ==
    [IdleIO EXCEPT !.returned =
        IF io.caller = "load"
        THEN [path |-> io.path, config |-> io.config, failed |-> failed]
        ELSE NoReturn]

\* line 50: open(ANALYSIS_CONFIG_FILE, "w")
OpenMain == [files EXCEPT !.main = Corrupt]

SaveOpenMain ==
    /\ io.pc = "open_main"
    /\ files' = OpenMain
    /\ io' = [io EXCEPT !.pc = "dump_main"]
    /\ UNCHANGED <<camVars, pick, job, app, merger>>

\* line 51
SaveDumpMain ==
    /\ io.pc = "dump_main"
    /\ files' = [files EXCEPT !.main = Dumped(io.config)]
    /\ io' = [io EXCEPT !.pc = "open_backup"]
    /\ UNCHANGED <<camVars, pick, job, app, merger>>

\* line 53: open(BACKUP_CONFIG_FILE, "w")
SaveOpenBackup ==
    /\ io.pc = "open_backup"
    /\ files' = [files EXCEPT !.backup = Corrupt]
    /\ io' = [io EXCEPT !.pc = "dump_backup"]
    /\ UNCHANGED <<camVars, pick, job, app, merger>>

\* line 54, and the return
SaveDumpBackup ==
    /\ io.pc = "dump_backup"
    /\ files' = [files EXCEPT !.backup = Dumped(io.config)]
    /\ io' = Return(FALSE)
    /\ UNCHANGED <<camVars, pick, job, app, merger>>

\* lines 55-56: open or json.dump raises (disk full, no permission); the
\* files stay as the failing statement found or left them
SaveRaises ==
    /\ io.pc \in {"open_main", "dump_main", "open_backup", "dump_backup"}
    /\ io' = Return(TRUE)
    /\ UNCHANGED <<camVars, pick, job, files, app, merger>>

\* the process ends inside a call (killed, power lost) and is started again
Interrupted ==
    /\ io.pc # "idle"
    /\ io' = IdleIO
    /\ UNCHANGED <<camVars, pick, job, files, app, merger>>

\* the primary file is deleted from outside while no call runs
PrimaryDeleted ==
    /\ io.pc = "idle"
    /\ files.main.st # "missing"
    /\ files' = [files EXCEPT !.main = Missing]
    /\ io' = IdleIO
    /\ UNCHANGED <<camVars, pick, job, app, merger>>

NextC ==
    \/ LoadCall \/ SaveCall
    \/ SaveOpenMain \/ SaveDumpMain \/ SaveOpenBackup \/ SaveDumpBackup
    \/ SaveRaises \/ Interrupted \/ PrimaryDeleted

SpecC == InitC /\ [][NextC]_vars

\* --------------------------------- dual_camera_merger.py: DualCameraMerger
\* The merger is used from one thread: either by direct calls of
\* start_recording, stop_recording and cleanup (as test_dual_camera.py does)
\* or through run(), whose loop handles the keys.  A path is the list of its
\* parts: <<base>> as given, <<base, t>> with the time stamp the 'r' handler
\* inserts, <<>> for None; every path has an extension.  A VideoWriter is
\* "open", "unopened" (constructed, isOpened() false) or "released".  The
\* camera handles and the display window are left out.

NoPath == <<>>
MergerCodecs == <<"mp4v", "XVID", "MJPG">>
CodecOutcomes == {"opens", "unopened", "raises"}

\* DualCameraMerger.__init__: lines 57-101; outcome: what cv2.VideoWriter
\* does with each codec on this machine
NewMerger(outcome) ==
    [is_recording |-> FALSE, video_writer |-> 0, record_path |-> NoPath,
     show_display |-> TRUE, is_paused |-> FALSE,
     running |-> FALSE, run_path |-> NoPath,
     writers |-> <<>>, outcome |-> outcome,
     op |-> "none", ret |-> "none", calls |-> 0]

InitM ==
    /\ env = "cv2"
    /\ CamIdle
    /\ pick = NoCall /\ job = NoCall /\ files = NoCall /\ io = NoCall
    /\ app = NoCall
    /\ \E outcome \in [1..Len(MergerCodecs) -> CodecOutcomes] :
          merger = NewMerger(outcome)

\* video_writer.release(): lines 423, 438
ReleasedNot(w) == w
Released(w) == [w EXCEPT !.state = "released"]

\* the loop over the codecs: lines 408-429
RECURSIVE TryWriters(_, _, _)
TryWriters(m, output_path, i) ==
    IF i > Len(MergerCodecs)
    THEN [m EXCEPT !.ret = "False"]
    ELSE IF m.outcome[i] = "raises"
    THEN TryWriters(m, output_path, i + 1)
    ELSE LET id == Len(m.writers) + 1
             made == [m EXCEPT !.video_writer = id,
                               !.writers = Append(@, [state |-> "open",
                                                     path |-> output_path,
                                                     frames |-> 0])]
         IN  IF m.outcome[i] = "opens"
             THEN [made EXCEPT !.is_recording = TRUE,
                               !.record_path = output_path,
                               !.ret = "True"]
             ELSE TryWriters([made EXCEPT !.writers[id] =
                                 Released([@ EXCEPT !.state = "unopened"])],
                             output_path, i + 1)

\* start_recording(output_path): lines 385-433
StartRecordingOn(m, output_path) ==
    IF m.is_recording
    THEN [m EXCEPT !.ret = "False"]
    ELSE TryWriters(m, output_path, 1)

\* stop_recording(): lines 435-442
StopRecordingOn(m) ==
    IF m.is_recording /\ m.video_writer # 0
    THEN [m EXCEPT !.writers[m.video_writer] = Released(@),
                   !.video_writer = 0,
                   !.is_recording = FALSE,
                   !.record_path = NoPath]
    ELSE m

\* cleanup(): lines 573-589
CleanupOn(m) == IF m.is_recording THEN StopRecordingOn(m) ELSE m

\* f"{record_path.rsplit('.', 1)[0]}_{timestamp}.{...}": line 479
Stamped(path, t) == Append(path, t)

\* the 'r' branch of handle_key_input: lines 473-480
ToggleRecording(m, t) ==
    IF m.record_path # NoPath
    THEN IF m.is_recording THEN StopRecordingOn(m)
         ELSE StartRecordingOn(m, Stamped(m.record_path, t))
    ELSE m

\* the call is counted and named
Called(m, op) == [m EXCEPT !.op = op, !.calls = @ + 1]

\* direct calls
StartRecording ==
    /\ ~merger.running
    /\ merger.calls < MaxOps
    /\ \E output_path \in {<<1>>, <<2>>} :
          merger' = Called(StartRecordingOn(merger, output_path), "start")
    /\ UNCHANGED <<camVars, pick, job, files, io, app>>

StopRecording ==
    /\ ~merger.running
    /\ merger.calls < MaxOps
    /\ merger' = Called(StopRecordingOn(merger), "stop")
    /\ UNCHANGED <<camVars, pick, job, files, io, app>>

Cleanup ==
    /\ ~merger.running
    /\ merger.calls < MaxOps
    /\ merger' = Called(CleanupOn(merger), "cleanup")
    /\ UNCHANGED <<camVars, pick, job, files, io, app>>

\* run(record_path, show_display) up to its loop: lines 489-520
Run ==
    /\ ~merger.running
    /\ merger.calls < MaxOps
    /\ \E record_path \in {NoPath, <<1>>}, show_display \in BOOLEAN,
          cameras \in BOOLEAN :
          IF ~cameras
          THEN merger' = Called(merger, "run")
          ELSE LET m == [merger EXCEPT !.show_display = show_display,
                                       !.record_path = record_path,
                                       !.run_path = record_path,
                                       !.running = TRUE]
               IN  merger' = Called(IF record_path # NoPath
                                    THEN StartRecordingOn(m, record_path)
                                    ELSE m, "run")
    /\ UNCHANGED <<camVars, pick, job, files, io, app>>

\* one pass of the loop that captures and records a frame: lines 524-543
LoopFrame ==
    /\ merger.running /\ ~merger.is_paused
    /\ merger.is_recording /\ merger.video_writer # 0
    /\ merger.writers[merger.video_writer].frames < MaxClip
    /\ merger' = [merger EXCEPT !.writers[merger.video_writer].frames = @ + 1]
    /\ UNCHANGED <<camVars, pick, job, files, io, app>>

\* the loop ends: lines 550, 555-561
Ended(m) == [CleanupOn(m) EXCEPT !.running = FALSE]

\* a key is pressed in the display window: lines 546-550, 460-487
KeyPressed ==
    /\ merger.running /\ merger.show_display
    /\ merger.calls < MaxOps
    /\ \E key \in {"q", "r", "s", " "} :
          merger' =
             CASE key = "q" -> Called(Ended(merger), "q")
               [] key = "r" -> Called(ToggleRecording(merger, merger.calls), "r")
               [] key = " " -> Called([merger EXCEPT !.is_paused = ~@], "space")
               [] OTHER -> Called(merger, "s")
    /\ UNCHANGED <<camVars, pick, job, files, io, app>>

\* KeyboardInterrupt: lines 555-561
KeyboardInterrupt ==
    /\ merger.running
    /\ merger.calls < MaxOps
    /\ merger' = Called(Ended(merger), "interrupt")
    /\ UNCHANGED <<camVars, pick, job, files, io, app>>

NextM ==
    \/ StartRecording \/ StopRecording \/ Cleanup \/ Run
    \/ LoopFrame \/ KeyPressed \/ KeyboardInterrupt

SpecM == InitM /\ [][NextM]_vars

\* ------------------------ one CameraWorker and a consumer of its queue
\* get_frame() called from another thread (the recording loop keeps what it
\* returns in _last_frame1): camera.py 151-159
GetFrame ==
    /\ workers[1].q # <<>>
    /\ workers' = [workers EXCEPT ![1].q = Tail(@)]
    /\ last1' = Head(workers[1].q)
    /\ UNCHANGED <<env, width, height, cap1, cap2, open, nh, demo_mode,
                   recording, stop_requested, frame_preview, cw1, cw2, last2,
                   loops, inits, starts, initOutcome, ready,
                   pick, job, files, io, app, merger>>

NextQC == WorkerPush \/ WorkerStop \/ GetFrame

SpecQC == InitQ /\ [][NextQC]_vars

\* ------------------------------------------------- the preview during a session
\* The session of InitB with the window's timer (_update_recording_ui,
\* app.py 606) calling get_preview() between any two steps of the loop.  A
\* frame is an object: the caller holds either a copy of the published frame
\* or the published object itself.

\* get_preview(): lines 482-489, under the lock of the publishing step.
\* copied = FALSE is the handler of lines 488-489: copy() raised and the
\* frame object in the slot is returned.
GetPreview ==
    /\ \E copied \in BOOLEAN :
          app' = IF frame_preview = NoFrame
                 THEN [pc |-> "get_preview", frame |-> NoFrame,
                       shared |-> FALSE]
                 ELSE [pc |-> "get_preview", frame |-> frame_preview,
                       shared |-> ~copied]
    /\ UNCHANGED <<env, workers, loops, inits, starts, initOutcome, ready,
                   pick, job, files, io, merger>>
    /\ UNCHANGED recVars

SessionShown == LoopBegin(1) \/ RealPass(1, MaxShown) \/ LoopSave(1)

NextV == WorkerFeed \/ SessionShown \/ Stop \/ GetPreview

SpecV == InitB /\ [][NextV]_vars

\* ------------------------------------ app.py: analysis, override, analysis
\* One bottle: the analysis thread of _run_auto_detection runs analyze_bottle
\* on the frames picked from the clip, the main thread stores the result, the
\* operator overrides it, and analyze_bottle runs again on the same frames
\* and material with the threshold files as the override left them.  The job
\* carries the number of its run; the store of a job is the two files as its
\* load finds and leaves them.

\* the files when the application starts, with every threshold present
CompleteFiles ==
    {[main |-> [st |-> "missing", cfg |-> Defaults],
      backup |-> [st |-> "missing", cfg |-> Defaults]]}
        \cup {SaveAnalysisConfig(c) : c \in Configs}

\* analysis.analyze_bottle(frame_before, frame_after, material_type=material)
\* at line 732, in the run-th analysis of the bottle
Analysis(before, after, material, store, run) ==
    NewJob(before, after, material, store) @@ [run |-> run]

InitR ==
    /\ env = "cv2"
    /\ CamIdle
    /\ pick = NoCall /\ io = NoCall /\ merger = NoCall
    /\ files \in CompleteFiles
    /\ app = [current_bottle_index |-> 1, result_var |-> "",
              bottle_analysis_results |-> [i \in 1..MaxBottles |-> NoResult]]
    /\ \E before \in BeforeFrames \ {NullFrame},
          after \in AfterFrames \ {NullFrame}, material \in Materials :
          job = Analysis(before, after, material, files, 1)

\* the dict analyze_bottle returned: analysis.py 74-77, 99-142, 148-152
ResultOf(r) ==
    IF r.metric = "none"
    THEN [result |-> r.result, reason |-> AnalysisReason]
    ELSE [result |-> r.result, reason |-> AnalysisReason,
          metric |-> r.metric, value |-> r.value]

\* _update_on_main_thread for the first analysis: lines 734-739.  The files
\* are as the load of the analysis left them.
ResultStored ==
    /\ job.pc = "done" /\ job.run = 1 /\ job.result # "raise"
    /\ app.bottle_analysis_results[1] = NoResult
    /\ app' = [app EXCEPT !.result_var = "Bottle Analysis",
                          !.bottle_analysis_results[1] = ResultOf(job)]
    /\ files' = job.store
    /\ UNCHANGED <<camVars, pick, job, io, merger>>

\* the operator presses an override button while no analysis is running
Corrects == job.pc = "done" /\ OverrideAnalysis

\* analyze_bottle on the same frames and material after an override that
\* adjusted a threshold
Reanalyze ==
    /\ job.pc = "done"
    /\ app.result_var = "Thresholds adjusted. Training data saved."
    /\ job' = Analysis(job.before, job.after, job.material, files, 2)
    /\ job' # job
    /\ UNCHANGED <<camVars, pick, files, io, app, merger>>

NextR == NextA \/ ResultStored \/ Corrects \/ Reanalyze

SpecR == InitR /\ [][NextR]_vars

\* ------------------------- an analysis thread loading during an override
\* The main thread runs _override_analysis: it loads the config, assigns the
\* adjusted threshold and saves, file by file as in SpecC, every write
\* succeeding.  An analysis thread started by _run_auto_detection calls
\* load_analysis_config at the start of its pipeline, at any point between
\* two steps of the save.  Both files exist from the start, so the load of
\* either thread only reads.

InitT ==
    /\ env = "cv2"
    /\ CamIdle
    /\ pick = NoCall /\ job = NoCall /\ app = NoCall /\ merger = NoCall
    /\ io = IdleIO
    /\ \E c \in Configs : files = [main |-> Dumped(c), backup |-> Dumped(c)]

\* _override_analysis up to the call of save_analysis_config: app.py 846-878
OverrideSaves ==
    /\ io.pc = "idle"
    /\ \E current_analysis \in AnalysisOutcomes, correct_result \in {"PASS", "FAIL"} :
          LET loaded == LoadAnalysisConfig(files)
          IN  /\ AdjustmentMade(current_analysis, correct_result)
              /\ files' = loaded.store
              /\ io' = [pc |-> "open_main", caller |-> "save", path |-> "none",
                        config |->
                            Assigned(loaded.config,
                                     ThresholdKey(current_analysis.metric),
                                     Times(current_analysis.value,
                                           Factor(current_analysis.result,
                                                  correct_result))),
                        returned |-> NoReturn]
    /\ UNCHANGED <<camVars, pick, job, app, merger>>

\* config = load_analysis_config() in the analysis thread: analysis.py 42, 84
ThreadLoads ==
    /\ LET loaded == LoadAnalysisConfig(files)
       IN  /\ job' = [pc |-> "loaded", config |-> loaded.config]
           /\ files' = loaded.store
    /\ UNCHANGED <<camVars, pick, io, app, merger>>

NextT ==
    \/ OverrideSaves \/ ThreadLoads
    \/ SaveOpenMain \/ SaveDumpMain \/ SaveOpenBackup \/ SaveDumpBackup

SpecT == InitT /\ [][NextT]_vars

\* ------------------------------------------------------------ properties

\* the last Min(n, N) of the frames 1..n, in capture order
LastFrames(n, N) == [i \in 1..Min(n, N) |-> Max(n - N, 0) + i]

\* C1: a queue of capacity N that is only pushed to holds, whenever a push has
\* settled, exactly the last N captured frames in capture order (all of them
\* while fewer than N were captured).
C1_DropOldestLaw ==
    \A w \in DOMAIN workers :
        (workers[w].st = "run" /\ workers[w].pc = "top")
            => workers[w].q = LastFrames(workers[w].n, workers[w].maxsize)

C1_Witness ==
    \E w \in DOMAIN workers :
        /\ workers[w].st = "run" /\ workers[w].pc = "top"
        /\ workers[w].maxsize >= 2
        /\ workers[w].n >= workers[w].maxsize + 2
        /\ Len(workers[w].q) = workers[w].maxsize

InLoop(r) == r.pc \in {"begin", "run"}
AllLoopsEnded == \A l \in DOMAIN loops : loops[l].pc = "done"

\* C2: start() is rejected while the recorder is Recording, so at most one
\* recording loop is active at any time.
C2_AtMostOneRecordingLoop ==
    Cardinality({l \in DOMAIN loops : InLoop(loops[l])}) <= 1

\* C3: every session that enters Recording returns to Idle with its output
\* container closed: once no loop thread is left running, recording is false
\* and no container is open.
C3_IdleWhenLoopsEnded ==
    AllLoopsEnded =>
        /\ ~recording
        /\ \A l \in DOMAIN loops : loops[l].out # "open"

\* C4: when a session has ended by stop() or by the timeout, both workers were
\* signalled to stop: no worker keeps capturing without a stop signal once the
\* recorder is Idle.
C4_WorkersStoppedWhenIdle ==
    (/\ ~recording
     /\ loops # <<>>
     /\ \A l \in DOMAIN loops :
           ~InLoop(loops[l]) /\ loops[l].why \in {"stop", "timeout"})
        => \A w \in DOMAIN workers :
               workers[w].st = "run" => workers[w].stopEv

\* C5: after the sessions so far have ended, start() on the initialized
\* recorder begins a new session (a new loop thread runs), in demo mode and
\* with real cameras.
C5_RestartBeginsSession ==
    [][(starts' = starts + 1 /\ ~recording /\ AllLoopsEnded)
          => Len(loops') = Len(loops) + 1]_vars

\* frames in the output container of a loop that has ended
Written(r) ==
    IF r.mode = "stream" THEN r.total
    ELSE IF r.saved = "video" THEN Len(r.frames) ELSE 0

C7_CounterInUnitInterval ==
    \A l \in DOMAIN loops :
        loops[l].stepped =>
            /\ 0 <= loops[l].accum /\ loops[l].accum < PaceDenom
            /\ loops[l].total * PaceDenom - loops[l].paced < PaceDenom
            /\ loops[l].paced - loops[l].total * PaceDenom < PaceDenom

\* C7 amended: the counter always equals writer_fps x elapsed minus the frames
\* written and lies in [-1, 1), so the frames written differ from
\* writer_fps x elapsed by at most one frame; it is negative only after the
\* one frame forced by the first write step.
C7_PacingLaw ==
    \A l \in DOMAIN loops :
        /\ loops[l].total * PaceDenom + loops[l].accum = loops[l].paced
        /\ -PaceDenom <= loops[l].accum /\ loops[l].accum < PaceDenom
        /\ loops[l].accum < 0 => loops[l].total = 1

C7_Witness ==
    \E l \in DOMAIN loops :
        /\ loops[l].stepped
        /\ loops[l].total >= 2
        /\ loops[l].accum > 0

\* C8: initialize returns ready = true in every case, and after a call that
\* found fewer than two cameras or could not open both devices the recorder is
\* in demo mode and holds no open camera handle.
C8_FallbackHoldsNoHandle ==
    /\ inits > 0 => ready
    /\ initOutcome \in {"demo", "fallback"} =>
          /\ demo_mode
          /\ cap1 \notin open /\ cap2 \notin open

\* C9: every camera handle opened by an earlier initialize is released before
\* a later initialize opens devices.
C9_ReinitReleasesFirst ==
    [][(inits' = inits + 1 /\ nh' > nh) => open = {}]_vars

AnyWorkerErrorFlag ==
    \E w \in {cw1, cw2} \ {0} : workers[w].errEv

\* C10: a pass of the real-camera loop that finds the error flag of one of the
\* recorder's workers set leaves the while loop: recording becomes false, the
\* container is closed, and the frames written or buffered so far are kept.
C10_ErrorEndsSession ==
    [][\A l \in DOMAIN loops :
          (AnyWorkerErrorFlag /\ RealIter(l))
             => /\ loops'[l].pc = "save"
                /\ loops'[l].out # "open"
                /\ loops'[l].total = loops[l].total
                /\ loops'[l].frames = loops[l].frames
                /\ ~recording']_vars

C10_Witness ==
    \E l \in DOMAIN loops :
        /\ loops[l].why = "error"
        /\ loops[l].out = "closed"
        /\ loops[l].total >= 1

\* the codec preference list of a loop, from its combined frame size
PreferenceList(r) ==
    IF r.combo_width * r.combo_height >= 1920 * 1080
          \/ r.combo_height >= HiResHeight
    THEN <<"MJPG", "XVID">> ELSE <<"XVID", "MJPG">>

\* C11: the writer of a real-camera session uses the first codec of the
\* preference list whose writer opens; when none opens the session is not
\* aborted: it runs in buffering mode, ends only for the reasons any session
\* ends, and every composite frame one of its passes produces is appended to
\* the frames list.
C11_CodecFallbackBuffers ==
    /\ [](\A l \in DOMAIN loops :
            loops[l].pc # "begin" =>
                LET pref == PreferenceList(loops[l])
                    opn  == loops[l].opens
                IN  /\ pref[1] \in opn => loops[l].codec = pref[1]
                    /\ (pref[1] \notin opn /\ pref[2] \in opn)
                          => loops[l].codec = pref[2]
                    /\ opn = {} <=> loops[l].mode = "buffer"
                    /\ loops[l].mode = "buffer"
                          => loops[l].why \in {"none", "stop", "timeout", "error"})
    /\ [][\A l \in DOMAIN loops :
            /\ (loops[l].pc = "begin" /\ loops'[l].pc # "begin")
                  => loops'[l].pc = "run"
            /\ (/\ loops[l].mode = "buffer"
                /\ RealPass(l, MaxFlush)
                /\ loops'[l].pc = "run"
                /\ last1' # 0 /\ last2' # 0)
                  => loops'[l].frames =
                        Append(loops[l].frames, <<last1', last2'>>)]_vars

C11_Witness ==
    \E l \in DOMAIN loops :
        /\ loops[l].opens = {} /\ loops[l].mode = "buffer"
        /\ loops[l].pc = "run"
        /\ Len(loops[l].frames) = 2
        /\ loops[l].frames[1] # loops[l].frames[2]

\* C12: a session whose container could not be opened at its start has, once
\* it has ended, every buffered composite frame in a container at the output
\* path, in capture order.
C12_BufferedFramesFlushed ==
    \A l \in DOMAIN loops :
        (loops[l].pc = "done" /\ loops[l].mode = "buffer")
            => /\ loops[l].file = loops[l].frames
               /\ loops[l].frames # <<>> => loops[l].saved = "video"

\* C13: pick_impact_frames raises and returns no frame pair when the clip
\* cannot be opened ("Cannot open video") or has 2 or fewer frames ("Video
\* too short").
C13_UnreadableOrShortFails ==
    (pick.pc \notin {"none", "call"} /\ (~pick.opened \/ pick.total <= 2))
        => /\ pick.pc = "done" /\ pick.result = "raise"
           /\ (env = "cv2" /\ ~pick.opened) => pick.err = "Cannot open video"
           /\ (env = "cv2" /\ pick.opened) => pick.err = "Video too short"

C13_Witness ==
    /\ pick.pc = "done" /\ pick.opened /\ pick.total = 2 /\ pick.bad = {}
    /\ pick.result = "raise" /\ pick.err = "Video too short"

\* the clip has all frames readable and one change of the scene, at frame K,
\* inside the margins
SinglePeakInside(r) ==
    /\ env = "cv2" /\ r.opened /\ r.total > 2 /\ r.bad = {}
    /\ r.K >= 1
    /\ r.ignore_edge <= r.K /\ r.K <= r.total - 1 - r.ignore_edge

\* C14: on a clip whose only motion is at frame K, with K inside the
\* ignore_edge margins, the peak selected is K and the pair returned is a
\* before frame at most offset_frames before K and an after frame at most
\* offset_frames after K.
C14_PeakStraddled ==
    (pick.pc = "done" /\ SinglePeakInside(pick))
        => /\ pick.result = "pair"
           /\ pick.peak = pick.K
           /\ pick.before_idx <= pick.K /\ pick.K <= pick.after_idx
           /\ pick.K - pick.before_idx <= pick.offset_frames
           /\ pick.after_idx - pick.K <= pick.offset_frames

ValidIndex(r, i) == 0 <= i /\ i <= r.total - 1

\* C15: on every clip of more than 2 frames and for every parameter setting
\* the stride used is at least 1 and the scan range, the fine window and the
\* before and after index are frame indices of the clip.
C15_IndicesValid ==
    /\ pick.pc \in {"coarse", "fine", "pair"} \/
          (pick.pc = "done" /\ pick.result = "pair")
          => /\ pick.coarse_stride >= 1
             /\ ValidIndex(pick, pick.start_idx)
             /\ ValidIndex(pick, pick.end_idx)
    /\ pick.pc = "pair" \/ (pick.pc = "done" /\ pick.result = "pair")
          => /\ ValidIndex(pick, pick.win_lo)
             /\ ValidIndex(pick, pick.win_hi)
    /\ (pick.pc = "done" /\ pick.result = "pair")
          => /\ ValidIndex(pick, pick.before_idx)
             /\ ValidIndex(pick, pick.after_idx)

\* C16: a call whose coarse scan read no frame fails; it does not go on to the
\* fine pass and return a frame pair.
C16_EmptyCoarseScanFails ==
    (pick.pc = "done" /\ pick.opened /\ pick.total > 2 /\ env = "cv2"
        /\ pick.coarse_reads = 0)
        => pick.result = "raise"

\* the pipeline analyze_bottle calls for a material
PipelineFor(material) ==
    IF material \in {"Plastic", "Steel"} THEN "deformation" ELSE "shatter"

\* C17 as stated: every call of analyze_bottle runs exactly one pipeline, the
\* deformation/spill pipeline for Plastic and Steel and the shatter pipeline
\* for every other material.
C17_ExactlyOnePipeline ==
    job.pc = "done" => job.ran = {PipelineFor(job.material)}

\* C17 amended: a call that passes the input checks (OpenCV present, both
\* frames not null) runs exactly one pipeline, the deformation/spill pipeline
\* for Plastic and Steel and the shatter pipeline for every other material;
\* a call that fails a check runs neither and returns ERROR.
C17_DispatchByMaterial ==
    job.pc \notin {"none", "call"} =>
        /\ IF env = "cv2" /\ ~job.before.null /\ ~job.after.null
           THEN job.ran = {PipelineFor(job.material)}
           ELSE job.ran = {} /\ job.pc = "done" /\ job.result = "ERROR"
        /\ job.spill_ran => job.ran = {"deformation"}

C17_Witness ==
    /\ job.pc = "done" /\ job.material = "Steel"
    /\ job.ran = {"deformation"} /\ job.result \in {"PASS", "FAIL"}

\* a contour of the frame reaches the area of a bottle
HasBottle(frame) ==
    ~frame.null /\
        \E i \in DOMAIN frame.contours :
            frame.contours[i].area >= MainContourMinArea

BigContours(frame) ==
    Cardinality({i \in DOMAIN frame.contours :
                    frame.contours[i].area > NoiseContourArea})

\* C19: with a bottle detected in the before frame the shatter pipeline
\* returns FAIL if and only if after_count / max(before_count, 1) exceeds
\* shatter_contour_increase_ratio and after_count is at least
\* shatter_min_contour_count, and PASS otherwise; the metric is shatter_ratio
\* and the value is that ratio.
C19_ShatterRule ==
    (job.pc = "done" /\ "shatter" \in job.ran /\ HasBottle(job.before)) =>
        LET before_count == Max(BigContours(job.before), 1)
            after_count == BigContours(job.after)
            thr == job.config.shatter_contour_increase_ratio
        IN  /\ job.result =
                  IF /\ after_count * thr[2] > thr[1] * before_count
                     /\ after_count >= job.config.shatter_min_contour_count
                  THEN "FAIL" ELSE "PASS"
            /\ job.metric = "shatter_ratio"
            /\ job.value[1] * before_count = after_count * job.value[2]

C19_Witness ==
    /\ job.pc = "done" /\ "shatter" \in job.ran
    /\ BigContours(job.before) = 3 /\ BigContours(job.after) = 8
    /\ job.config = Defaults
    /\ job.result = "FAIL" /\ job.value = <<8, 3>>

\* the areas of the spill candidates of the after frame
SpillAreas(frame, config) ==
    LET b == GetMainContour(frame).contour
    IN  {frame.contours[i].area : i \in
            {j \in DOMAIN frame.contours :
                /\ frame.contours[j] # b
                /\ frame.contours[j].area * config.spill_min_area[2]
                      > config.spill_min_area[1]
                /\ frame.contours[j].area * 2 < b.area
                /\ frame.contours[j].y * 10 > b.y * 10 + b.h * 6}}

\* C20: with a bottle in both frames the deformation/spill pipeline returns
\* FAIL with metric deformation = ratio_change when ratio_change =
\* |after_ratio - before_ratio| / before_ratio exceeds the deformation
\* threshold, and then the spill check has not run; otherwise FAIL with metric
\* spill_area = the area of the largest spill candidate when there is one;
\* otherwise PASS with metric deformation = ratio_change.
C20_DeformationThenSpill ==
    (/\ job.pc = "done" /\ "deformation" \in job.ran
     /\ HasBottle(job.before) /\ HasBottle(job.after)) =>
        LET rb == GetMainContour(job.before).ratio
            ra == GetMainContour(job.after).ratio
            num == IF rb[1] > 0 THEN Abs(ra[1] * rb[2] - rb[1] * ra[2]) ELSE 0
            den == IF rb[1] > 0 THEN ra[2] * rb[1] ELSE 1
            thr == job.config.deformation_threshold
            areas == SpillAreas(job.after, job.config)
        IN  IF num * thr[2] > thr[1] * den
            THEN /\ job.result = "FAIL" /\ job.metric = "deformation"
                 /\ job.value[1] * den = num * job.value[2]
                 /\ ~job.spill_ran
            ELSE IF areas # {}
            THEN /\ job.result = "FAIL" /\ job.metric = "spill_area"
                 /\ job.value[2] = 1 /\ job.value[1] \in areas
                 /\ \A a \in areas : a <= job.value[1]
                 /\ job.spill_ran
            ELSE /\ job.result = "PASS" /\ job.metric = "deformation"
                 /\ job.value[1] * den = num * job.value[2]

C20_Witness ==
    /\ job.pc = "done" /\ job.material = "Plastic"
    /\ GetMainContour(job.before).ratio = <<10, 10>>
    /\ GetMainContour(job.after).ratio = <<11, 10>>
    /\ job.config = Defaults
    /\ job.spill_ran
    /\ job.result = "FAIL" /\ job.metric = "spill_area"
    /\ job.value = <<480, 1>>

\* ------------------------------------------------- the manual override
\* equality of two fractions
FEq(a, b) == a[1] * b[2] = b[1] * a[2]

\* the thresholds in force: what the two files hold for the next load, a key
\* a file lacks standing at its default
InForce(f) ==
    LET held == IF f.main.st = "ok" THEN f.main.cfg
                ELSE IF f.main.st = "missing" /\ f.backup.st = "ok"
                THEN f.backup.cfg
                ELSE Defaults
    IN  [k \in DOMAIN Defaults |-> IF k \in DOMAIN held THEN held[k]
                                   ELSE Defaults[k]]

KeyOf ==
    [deformation |-> "deformation_threshold", spill_area |-> "spill_min_area",
     shatter_ratio |-> "shatter_contour_increase_ratio"]

ScaleOf(c) == IF c = "PASS" THEN <<11, 10>> ELSE <<9, 10>>

\* this step overrides the result of bottle i to c, which it was not
Overrides(i, c) ==
    /\ app.current_bottle_index = i
    /\ DOMAIN app.bottle_analysis_results[i] # {}
    /\ DOMAIN app'.bottle_analysis_results[i] # {}
    /\ app.bottle_analysis_results[i].result # c
    /\ app'.bottle_analysis_results[i].result = c
    /\ app'.bottle_analysis_results[i].reason =
          (IF c = "PASS" THEN "Manually overridden to PASS"
           ELSE "Manually overridden to FAIL")

\* ... and the result carries one of the three metrics and a value, and the
\* correction is FAIL -> PASS or PASS -> FAIL
Adjusting(i, c) ==
    /\ Overrides(i, c)
    /\ "metric" \in DOMAIN app.bottle_analysis_results[i]
    /\ "value" \in DOMAIN app.bottle_analysis_results[i]
    /\ app.bottle_analysis_results[i].metric \in DOMAIN KeyOf
    /\ app.bottle_analysis_results[i].result = (IF c = "PASS" THEN "FAIL" ELSE "PASS")

\* C21 as stated: a disagreeing override multiplies the threshold of the
\* result's metric by 1.10 (FAIL -> PASS) or by 0.90 (PASS -> FAIL): the new
\* threshold is the previous threshold times the factor.
C21_PreviousThresholdScaled ==
    [][\A i \in 1..MaxBottles, c \in {"PASS", "FAIL"} :
          Adjusting(i, c) =>
              LET k == KeyOf[app.bottle_analysis_results[i].metric]
              IN  FEq(InForce(files')[k], Times(InForce(files)[k], ScaleOf(c)))]_vars

\* C21: a disagreeing override sets the threshold of the result's metric to
\* the result's value times 1.10 (FAIL -> PASS) or times 0.90 (PASS -> FAIL),
\* whatever the threshold was before; it is the previous threshold times the
\* factor only when the value equals the previous threshold.
C21_ValueScaled ==
    [][\A i \in 1..MaxBottles, c \in {"PASS", "FAIL"} :
          Adjusting(i, c) =>
              LET k == KeyOf[app.bottle_analysis_results[i].metric]
                  v == app.bottle_analysis_results[i].value
                  old == InForce(files)[k]
                  new == InForce(files')[k]
              IN  /\ FEq(new, <<v[1] * ScaleOf(c)[1], v[2] * ScaleOf(c)[2]>>)
                  /\ ~FEq(v, old) =>
                        ~FEq(new, <<old[1] * ScaleOf(c)[1],
                                    old[2] * ScaleOf(c)[2]>>)]_vars

\* a FAIL on deformation 0.20 was overridden to PASS: the threshold is 0.22,
\* not 1.1 times a default 0.15
C21_Witness ==
    /\ app.result_var = "Thresholds adjusted. Training data saved."
    /\ \E i \in 1..MaxBottles :
          /\ app.current_bottle_index = i
          /\ DOMAIN app.bottle_analysis_results[i] # {}
          /\ app.bottle_analysis_results[i].reason = "Manually overridden to PASS"
          /\ app.bottle_analysis_results[i].metric = "deformation"
    /\ FEq(InForce(files).deformation_threshold, <<22, 100>>)
    /\ ~FEq(InForce(files).deformation_threshold, <<165, 1000>>)

\* C22: an override FAIL -> PASS of a result with metric m and value v leaves
\* v * 1.1, an override PASS -> FAIL leaves v * 0.9, as the threshold of m in
\* analysis_config.json and in analysis_config.json.bak, for each of the three
\* metrics.
C22_BothFilesHoldScaledValue ==
    [][\A i \in 1..MaxBottles, c \in {"PASS", "FAIL"} :
          Adjusting(i, c) =>
              LET k == KeyOf[app.bottle_analysis_results[i].metric]
                  v == app.bottle_analysis_results[i].value
                  t == IF c = "PASS" THEN <<v[1] * 11, v[2] * 10>>
                       ELSE <<v[1] * 9, v[2] * 10>>
              IN  /\ files'.main.st = "ok" /\ files'.backup.st = "ok"
                  /\ k \in DOMAIN files'.main.cfg
                  /\ k \in DOMAIN files'.backup.cfg
                  /\ FEq(files'.main.cfg[k], t)
                  /\ FEq(files'.backup.cfg[k], t)]_vars

\* a FAIL on spill area 450 was overridden to PASS and then back to FAIL: both
\* files hold 405
C22_Witness ==
    /\ app.result_var = "Thresholds adjusted. Training data saved."
    /\ \E i \in 1..MaxBottles :
          /\ DOMAIN app.bottle_analysis_results[i] # {}
          /\ app.bottle_analysis_results[i].reason = "Manually overridden to FAIL"
          /\ app.bottle_analysis_results[i].metric = "spill_area"
    /\ files.main.st = "ok" /\ files.backup.st = "ok"
    /\ "spill_min_area" \in DOMAIN files.main.cfg
    /\ "spill_min_area" \in DOMAIN files.backup.cfg
    /\ FEq(files.main.cfg.spill_min_area, <<405, 1>>)
    /\ FEq(files.backup.cfg.spill_min_area, <<405, 1>>)

C24_OverriddenAtMostOnce ==
    [][\A i \in 1..MaxBottles, c \in {"PASS", "FAIL"} :
          Overrides(i, c) =>
              /\ app.bottle_analysis_results[i].reason = "analysis"
              /\ DOMAIN app'.bottle_analysis_results[i]
                     = DOMAIN app.bottle_analysis_results[i]
              /\ \A k \in DOMAIN app.bottle_analysis_results[i] \ {"result", "reason"} :
                     app'.bottle_analysis_results[i][k]
                         = app.bottle_analysis_results[i][k]]_vars

\* the part of C24 that holds: every override keeps metric and value
C24_MetricAndValueKept ==
    [][\A i \in 1..MaxBottles, c \in {"PASS", "FAIL"} :
          Overrides(i, c) =>
              /\ DOMAIN app'.bottle_analysis_results[i]
                     = DOMAIN app.bottle_analysis_results[i]
              /\ \A k \in DOMAIN app.bottle_analysis_results[i] \ {"result", "reason"} :
                     app'.bottle_analysis_results[i][k]
                         = app.bottle_analysis_results[i][k]]_vars

\* ------------------------------------------------- the threshold files
\* C25: a load that finds no primary file and a backup that parses returns
\* the backup's config and, its writes succeeding, leaves a primary file and a
\* backup that both hold exactly that config.
C25_RestoreRoundTrip ==
    [][/\ (io.pc = "idle" /\ io'.pc # "idle" /\ io'.caller = "load"
              /\ files.main.st = "missing" /\ files.backup.st = "ok")
             => io'.path = "restore" /\ io'.config = files.backup.cfg
       /\ (io.pc = "dump_backup" /\ io.path = "restore" /\ io'.pc = "idle"
              /\ io'.returned.path = "restore" /\ ~io'.returned.failed)
             => /\ io'.returned.config = io.config
                /\ files'.main = [st |-> "ok", cfg |-> io.config]
                /\ files'.backup = files'.main]_vars

\* the primary file of a partial config was deleted and a load has restored it
C25_Witness ==
    /\ io.pc = "idle"
    /\ io.returned.path = "restore" /\ ~io.returned.failed
    /\ io.returned.config = PartialConfig
    /\ files.main = [st |-> "ok", cfg |-> PartialConfig]
    /\ files.backup = files.main

\* C26: the config a load returns has all four threshold keys, whichever file
\* it was read from.
C26_AllKeysReturned ==
    io.returned.path # "none" =>
        DOMAIN io.returned.config
            = {"deformation_threshold", "spill_min_area",
               "shatter_contour_increase_ratio", "shatter_min_contour_count"}

\* a file parses
Valid(file) == file.st = "ok"

\* C27: no step of a save takes the last parseable file away: when one of the
\* two files parsed before the step, one of them parses after it.
C27_OneFileAlwaysValid ==
    [][(io' # io /\ (Valid(files.main) \/ Valid(files.backup)))
          => (Valid(files'.main) \/ Valid(files'.backup))]_vars

\* ------------------------------------------------- the DualCameraMerger
\* C28: a direct start_recording returns True exactly when it has set
\* is_recording, and then the writer it has constructed is open; called while
\* recording it returns False and leaves writer, path and writers as they
\* were; after a direct stop_recording or cleanup is_recording is false and no
\* writer is open.
C28_RecordingDiscipline ==
    [][/\ (merger'.calls = merger.calls + 1 /\ merger'.op = "start") =>
             /\ merger'.ret = "True" <=> (~merger.is_recording /\ merger'.is_recording)
             /\ merger'.ret = "True" =>
                   /\ merger'.video_writer = Len(merger'.writers)
                   /\ Len(merger'.writers) > Len(merger.writers)
                   /\ merger'.writers[merger'.video_writer].state = "open"
             /\ merger.is_recording =>
                   /\ merger'.ret = "False"
                   /\ merger'.is_recording
                   /\ merger'.video_writer = merger.video_writer
                   /\ merger'.record_path = merger.record_path
                   /\ merger'.writers = merger.writers
       /\ (merger'.calls = merger.calls + 1 /\ merger'.op \in {"stop", "cleanup"}) =>
             /\ ~merger'.is_recording
             /\ \A w \in DOMAIN merger'.writers :
                   merger'.writers[w].state = "released"]_vars

\* a recording was started, a second start was refused, and the recording was
\* stopped
C28_Witness ==
    /\ merger.op = "stop" /\ merger.calls = 3
    /\ merger.ret = "False"
    /\ ~merger.is_recording
    /\ Len(merger.writers) > 0
    /\ merger.writers[Len(merger.writers)].state = "released"

\* C29: in a run that was given a record path, a press of 'r' stops the
\* recording when one is active and starts one (some codec opening) when none
\* is active.
C29_EveryPressToggles ==
    [][(/\ merger'.calls = merger.calls + 1 /\ merger'.op = "r"
        /\ merger.run_path # <<>>) =>
           /\ merger.is_recording => ~merger'.is_recording
           /\ (/\ ~merger.is_recording
               /\ \E i \in DOMAIN merger.outcome : merger.outcome[i] = "opens")
                 => merger'.is_recording]_vars

\* ------------------------------------- the worker's queue with a consumer
\* C30: with a consumer taking frames from the queue, the queue never holds
\* more than maxsize frames, every pass of the worker that captured a frame
\* ends with that frame at the tail of the queue (no put is given up and none
\* ends the thread), and the worker removes at most the one oldest frame, and
\* only after the queue was found full.
C30_EveryFrameEnqueued ==
    /\ [](Len(workers[1].q) <= workers[1].maxsize)
    /\ [][/\ (/\ workers'[1].st = "run" /\ workers'[1].pc = "top"
              /\ last1' = last1
              /\ (workers'[1].n # workers[1].n \/ workers[1].pc # "top"))
                => /\ workers'[1].q # <<>>
                   /\ workers'[1].q[Len(workers'[1].q)] = workers'[1].n
          /\ (last1' = last1 /\ workers[1].pc \in {"put", "retry"})
                => workers'[1].st = "run"
          /\ (last1' = last1 /\ workers'[1].st = "run")
                => \/ Len(workers'[1].q) >= Len(workers[1].q)
                   \/ /\ workers[1].pc = "full"
                      /\ workers'[1].q = Tail(workers[1].q)]_vars

\* the queue is full, its newest frame is the frame captured last, and a frame
\* between the one the consumer took last and the oldest queued was evicted
C30_Witness ==
    /\ workers[1].st = "run" /\ workers[1].pc = "top"
    /\ Len(workers[1].q) = workers[1].maxsize
    /\ workers[1].q[Len(workers[1].q)] = workers[1].n
    /\ last1 > 0
    /\ workers[1].q[1] > last1 + 1

AtLoopTop(r) ==
    r.st = "run" /\ r.pc = "top" /\ ~r.stopEv /\ r.cam \in open

\* C32: a worker thread ends only after a stop signal or with its error flag
\* set, and the error flag is set exactly when an error message is; a pass
\* whose read yields no frame leaves the worker as it was (running, no error
\* flag, queue untouched), and a pass that finds the camera not opened ends
\* the thread with the error flag set and the message "Camera disconnected
\* or not opened".
C32_StopsOnlyOnStopOrFatal ==
    /\ [](\A w \in DOMAIN workers :
            LET r == workers[w] IN
            /\ r.st = "done" => r.stopEv \/ r.errEv
            /\ r.errEv <=> r.last_error # "None"
            /\ r.errEv => r.st = "done"
            /\ AtLoopTop(r) =>
                 /\ WorkerTop(r, "fail", MaxPush) = r
                 /\ LET g == WorkerTop(r, "gone", MaxPush) IN
                       /\ g.st = "done" /\ g.errEv
                       /\ g.last_error = "Camera disconnected or not opened")
    /\ [][\A w \in DOMAIN workers :
            (workers[w].st = "run" /\ workers'[w].st = "done")
               => \/ workers[w].stopEv /\ ~workers'[w].errEv
                  \/ /\ ~workers[w].stopEv /\ workers'[w].errEv
                     /\ workers'[w].last_error \in
                           {"Camera disconnected or not opened",
                            "Frame capture error: "}]_vars

\* a worker that was never told to stop ended because its camera was lost
C32_Witness ==
    /\ workers[1].st = "done" /\ ~workers[1].stopEv
    /\ workers[1].errEv
    /\ workers[1].last_error = "Camera disconnected or not opened"

\* the preview throttle the resolution calls for
KOf(h) == IF h >= 720 THEN 3 ELSE 1

\* of the composite frames of a real-camera session only every Kth replaces
\* the preview slot, the first one included; the others leave the slot as it is
PublishedEveryKth ==
    [][\A l \in DOMAIN loops :
          (RealPass(l, MaxShown) /\ loops[l].pc = "run"
              /\ loops'[l].pc = "run" /\ last1' # 0 /\ last2' # 0)
             => LET K == KOf(height)
                    nth == IF loops[l].mode = "buffer"
                           THEN Len(loops[l].frames) ELSE loops[l].fc
                IN  /\ loops[l].throttle = K
                    /\ frame_preview' = IF nth % K = 0
                                        THEN <<last1', last2'>>
                                        ELSE frame_preview]_vars

\* get_preview returns nothing when nothing was published and otherwise the
\* frame in the slot
ReturnsLatest ==
    [][app' # app => app'.frame = frame_preview]_vars

\* C33: the preview is one slot that every Kth composite frame overwrites
\* (K = 3 when height >= 720, otherwise 1), and get_preview called at any
\* point of the session returns nothing or a copy of the frame in the slot,
\* never the frame object the loop published.
C33_PreviewIsLatestCopy ==
    /\ PublishedEveryKth
    /\ ReturnsLatest
    /\ [][app' # app => ~app'.shared]_vars

\* C34: after any sequence of initialize and release calls the recorder is in
\* demo mode exactly when its most recent initialize found fewer than two
\* usable cameras (or no OpenCV) or could not open both devices; after an
\* initialize that opened two cameras demo_mode is false.
C34_DemoModeFollowsLastInitialize ==
    inits > 0 => (demo_mode <=> initOutcome \in {"demo", "fallback"})

\* C35: on a clip long enough for the margins to leave a scan range, the
\* peak the fine pass selects is not among the first or the last ignore_edge
\* frames: ignore_edge <= peak <= total - 1 - ignore_edge.
C35_PeakInsideMargins ==
    (/\ pick.pc = "pair" \/ (pick.pc = "done" /\ pick.result = "pair")
     /\ pick.total - 1 - pick.ignore_edge > Max(1, pick.ignore_edge))
        => /\ pick.ignore_edge <= pick.peak
           /\ pick.peak <= pick.total - 1 - pick.ignore_edge

\* C36: when the operator's override adjusted a threshold and analyze_bottle
\* then ran again on the same frames and material with the files the override
\* wrote, the second analysis returns the operator's verdict.
C36_FeedbackEffective ==
    (/\ job.pc = "done" /\ job.run = 2 /\ job.store = files
     /\ app.result_var = "Thresholds adjusted. Training data saved.")
        => job.result = app.bottle_analysis_results[1].result

\* C37: a load that finds a primary file that does not parse and a backup
\* that does returns the thresholds the backup holds.
C37_BackupUsedWhenPrimaryUnreadable ==
    (/\ io.pc = "idle" /\ io.returned.path # "none"
     /\ files.main.st = "corrupt" /\ files.backup.st = "ok")
        => \A k \in DOMAIN files.backup.cfg :
              /\ k \in DOMAIN io.returned.config
              /\ io.returned.config[k] = files.backup.cfg[k]

\* the complete configs around a load: what a file that parses holds and, while
\* a save is running, the config being saved
WholeConfigs ==
    {Backfilled(f.cfg) : f \in {g \in {files.main, files.backup} : g.st = "ok"}}
        \cup (IF io.pc = "idle" THEN {} ELSE {io.config})

\* C38: a load of the analysis thread, at whatever point of an override's
\* save it runs, returns the complete config from before the override or the
\* complete config the override saves, and no other thresholds.
C38_LoadSeesWholeConfig ==
    [][job' # job => job'.config \in WholeConfigs]_vars

====
